---- MODULE Spec2Model ----
(***************************************************************************)
(* A model of the daily file cache (utils/cache.py, utils/api_cache.py)    *)
(* and of the GTFS analysis (tools/buses.py: service-day resolution, time  *)
(* parsing, arrivals by stop and hour, peak hours) of the driver-assistant *)
(* agent.                                                                  *)
(*                                                                         *)
(* Specifications:                                                         *)
(*   Spec       DailyCache used directly, one caller at a time             *)
(*   SpecFetch  the memoising wrapper get_cached_or_fetch                  *)
(*   SpecConc   two callers on one DailyCache, one file-system call a step *)
(*   SpecGtfs   the service-day resolution of get_bus_count_by_hour_day    *)
(*   SpecTime   parse_gtfs_time_and_date on its own                        *)
(*   SpecStops  get_bus_stops_by_hour on every feed of a small universe    *)
(*   SpecPeak   get_bus_peak_hours on every feed of a small universe       *)
(*   SpecChunk  _load_stop_times_chunked, memory-resident and in windows   *)
(*   SpecLoad   the analyzer on feed directories that lack files           *)
(*   SpecTools  get_bus_peak_hours, get_bus_stops_by_hour, clear_bus_cache *)
(*              on one cache directory                                     *)
(*   SpecTorn   two callers on one key, a long text written in two writes  *)
(***************************************************************************)
EXTENDS Integers, Sequences, FiniteSets, TLC

VARIABLES
    store,      \* cache_dir: key -> content of the file <md5(key)>.json
    today,      \* date.today(), as a day number
    hist,       \* history: key -> the most recent write attempt of the day
    last,       \* the most recent call: what it was and what came back
    pc,         \* SpecConc: caller -> the file-system call it is about to make
    call,       \* SpecConc: caller -> the DailyCache call it is in
    handle,     \* SpecConc: caller -> the state of the file it has open
    done,       \* SpecConc: key -> a set completed today and no delete unlinked
                \* the file during or after it
    res,        \* SpecConc: caller -> the result of its last completed call
    calendar_df,        \* SpecGtfs: the rows of calendar.txt
    calendar_dates_df,  \* SpecGtfs: the rows of calendar_dates.txt
    resolved,           \* SpecGtfs: the last service-day resolution
    stops_df,           \* the rows of stops.txt
    trips_df,           \* the rows of trips.txt
    stop_times_df,      \* the rows of stop_times.txt
    sort_ties,          \* the order the build's sort leaves equal counts in
    parsed,             \* SpecTime: the last call of parse_gtfs_time_and_date
    arrivals,           \* SpecStops: the last call of _fetch_bus_stops_by_hour
    peak,               \* SpecPeak: the last call of _fetch_bus_peak_hours
    chunked,            \* SpecChunk: the last read of stop_times.txt, both ways
    gtfs_folder,        \* the feed directory: the files that can be read, and
                        \* whether stop_times.txt fits in memory
    loaded,             \* the tables of the analyzer that are not None
    stop_times_txt,     \* the rows of the file stop_times.txt
    found,              \* SpecLoad: the last call of get_city_stops
    tool                \* SpecTools: the last call of a bus tool

cacheVars == <<store, today, hist, last>>
concVars == <<pc, call, handle, done, res>>
gtfsVars == <<calendar_df, calendar_dates_df, resolved>>
feedVars == <<stops_df, trips_df, stop_times_df, sort_ties, parsed, arrivals, peak,
              chunked, gtfs_folder, loaded, stop_times_txt, found, tool>>
vars == <<cacheVars, concVars, gtfsVars, feedVars>>

(***************************************************************************)
(* Bounds                                                                  *)
(***************************************************************************)
MaxDay == 1

Days == 0..MaxDay
Keys == {"k1", "k2"}

(***************************************************************************)
(* Python values, as tagged tuples <<tag, payload>>.  An int is kept by    *)
(* its digits, a container by the sequence of its members, a dict by the   *)
(* sequence of its <<key, value>> items.                                   *)
(***************************************************************************)
PyNone == <<"none">>
PyInt(d) == <<"int", d>>
PyStr(s) == <<"str", s>>
PyList(xs) == <<"list", xs>>
PyTuple(xs) == <<"tuple", xs>>
PyDict(items) == <<"dict", items>>
PyObject(repr) == <<"object", repr>>

\* The values callers store: primitives, nested mappings and sequences (a
\* str-keyed dict holding a list, an int-keyed dict holding a tuple), and one
\* value json has no encoding for.
PyValues ==
    { PyNone,
      PyInt("1"),
      PyDict(<< <<PyStr("a"), PyList(<<PyInt("1"), PyStr("b")>>)>> >>),
      PyDict(<< <<PyInt("1"), PyTuple(<<PyStr("a")>>)>> >>),
      PyObject("X") }

(***************************************************************************)
(* json.dump(..., default=str) and json.load, on JSON values               *)
(* <<"null">>, <<"number", d>>, <<"string", s>>, <<"array", xs>>,          *)
(* <<"object", members>> with members <<name, value>>.                     *)
(***************************************************************************)
\* A dict key is written as a JSON member name: a str as itself, an int by
\* its digits.
JsonKey(k) == k[2]

RECURSIVE JsonDump(_)
JsonDump(v) ==
    CASE v[1] = "none" -> <<"null">>
      [] v[1] = "int" -> <<"number", v[2]>>
      [] v[1] = "str" -> <<"string", v[2]>>
      [] v[1] \in {"list", "tuple"} ->
            <<"array", [i \in 1..Len(v[2]) |-> JsonDump(v[2][i])]>>
      [] v[1] = "dict" ->
            <<"object", [i \in 1..Len(v[2]) |->
                            <<JsonKey(v[2][i][1]), JsonDump(v[2][i][2])>>]>>
      [] OTHER -> <<"string", v[2]>>      \* default=str

RECURSIVE JsonLoad(_)
JsonLoad(j) ==
    CASE j[1] = "null" -> PyNone
      [] j[1] = "number" -> PyInt(j[2])
      [] j[1] = "string" -> PyStr(j[2])
      [] j[1] = "array" ->
            PyList([i \in 1..Len(j[2]) |-> JsonLoad(j[2][i])])
      [] OTHER ->
            PyDict([i \in 1..Len(j[2]) |->
                       <<PyStr(j[2][i][1]), JsonLoad(j[2][i][2])>>])

\* dict.get(name): the value of the item with that key, else None.
DictGet(d, name) ==
    IF \E i \in 1..Len(d[2]) : d[2][i][1] = PyStr(name)
    THEN d[2][CHOOSE i \in 1..Len(d[2]) : d[2][i][1] = PyStr(name)][2]
    ELSE PyNone

\* str(date.today())
TodayStr(day) == PyStr(ToString(day))

(***************************************************************************)
(* File contents.                                                          *)
(***************************************************************************)
NoFile == <<"nofile">>
Text(j) == <<"text", j>>                \* a file holding the JSON value j
Garbage == <<"garbage">>                \* text json.load cannot parse
Empty == <<"empty">>                    \* a file of no bytes, as open(path, "w") leaves it
BadBytes == <<"badbytes">>              \* bytes that are not valid UTF-8
Unreadable == <<"unreadable">>          \* open(path, "r") raises OSError

\* cache_data = {"data": value, "date": today_str}, as json.dump writes it
CacheData(value, day) ==
    PyDict(<< <<PyStr("data"), value>>, <<PyStr("date"), TodayStr(day)>> >>)

EntryFile(value, day) == Text(JsonDump(CacheData(value, day)))

\* Files that no call of set wrote.
CorruptFiles ==
    { Garbage, BadBytes, Unreadable,
      Text(<<"array", <<>> >>),
      Text(<<"object", << <<"data", <<"number", "1">> >> >> >>),
      Text(<<"object", << <<"date", <<"string", ToString(0)>> >> >> >>) }

IsText(f) == f[1] = "text"
IsObject(f) == IsText(f) /\ f[2][1] = "object"
StoredDate(f) == DictGet(JsonLoad(f[2]), "date")
StoredData(f) == DictGet(JsonLoad(f[2]), "data")

(***************************************************************************)
(* DailyCache.get                                                          *)
(***************************************************************************)
\* get with "return cache_data" for "return cache_data.get('data')"
GetOutcome_ReturnsEntry(f, day) ==
    IF f = NoFile \/ f \in {Unreadable, Garbage}
    THEN [ret |-> PyNone, exc |-> "none", file |-> NoFile, branch |-> "missing"]
    ELSE IF f = BadBytes
    THEN [ret |-> PyNone, exc |-> "UnicodeDecodeError", file |-> f, branch |-> "raise"]
    ELSE LET cache_data == JsonLoad(f[2]) IN
         IF cache_data[1] # "dict"
         THEN [ret |-> PyNone, exc |-> "AttributeError", file |-> f, branch |-> "raise"]
         ELSE IF DictGet(cache_data, "date") # TodayStr(day)
         THEN [ret |-> PyNone, exc |-> "none", file |-> NoFile, branch |-> "outdated"]
         ELSE [ret |-> cache_data, exc |-> "none", file |-> f, branch |-> "fresh"]

\* get without the unlink of an outdated file
GetOutcome_KeepsOutdated(f, day) ==
    IF f = NoFile \/ f \in {Unreadable, Garbage}
    THEN [ret |-> PyNone, exc |-> "none", file |-> NoFile, branch |-> "missing"]
    ELSE IF f = BadBytes
    THEN [ret |-> PyNone, exc |-> "UnicodeDecodeError", file |-> f, branch |-> "raise"]
    ELSE LET cache_data == JsonLoad(f[2]) IN
         IF cache_data[1] # "dict"
         THEN [ret |-> PyNone, exc |-> "AttributeError", file |-> f, branch |-> "raise"]
         ELSE IF DictGet(cache_data, "date") # TodayStr(day)
         THEN [ret |-> PyNone, exc |-> "none", file |-> f, branch |-> "outdated"]
         ELSE [ret |-> DictGet(cache_data, "data"), exc |-> "none", file |-> f,
               branch |-> "fresh"]

GetOutcome(f, day) ==
    IF f = NoFile
    THEN [ret |-> PyNone, exc |-> "none", file |-> NoFile, branch |-> "missing"]
    ELSE IF f = Unreadable
    THEN [ret |-> PyNone, exc |-> "none", file |-> NoFile, branch |-> "error"]
    ELSE IF f = BadBytes
    THEN [ret |-> PyNone, exc |-> "UnicodeDecodeError", file |-> f, branch |-> "raise"]
    ELSE IF f \in {Garbage, Empty}
    THEN [ret |-> PyNone, exc |-> "none", file |-> NoFile, branch |-> "error"]
    ELSE LET cache_data == JsonLoad(f[2]) IN
         IF cache_data[1] # "dict"
         THEN [ret |-> PyNone, exc |-> "AttributeError", file |-> f, branch |-> "raise"]
         ELSE IF DictGet(cache_data, "date") # TodayStr(day)
         THEN [ret |-> PyNone, exc |-> "none", file |-> NoFile, branch |-> "outdated"]
         ELSE [ret |-> DictGet(cache_data, "data"), exc |-> "none", file |-> f,
               branch |-> "fresh"]

(***************************************************************************)
(* DailyCache.set: io is what the file system does to the write.           *)
(***************************************************************************)
IoOutcomes == {"ok", "open_fails", "write_fails"}

\* set that leaves an existing file alone (open(path, "x") for "w")
SetOutcome_KeepExisting(f, value, day, io) ==
    CASE io = "ok" -> IF f = NoFile THEN EntryFile(value, day) ELSE f
      [] io = "open_fails" -> f
      [] OTHER -> Garbage

SetOutcome(f, value, day, io) ==
    CASE io = "ok" -> EntryFile(value, day)
      [] io = "open_fails" -> f
      [] OTHER -> Garbage

NoHist == <<"nohist">>
\* A write attempt: the value passed to set, whether the write succeeded, and
\* whether the key already held a different file.
Attempt(value, io, f, day) ==
    <<"attempt", value, io = "ok", f # NoFile /\ f # EntryFile(value, day)>>

\* last: the call (op, key), the file it found (pre) and the history entry it
\* found (memo), what it returned (ret) or raised (exc), whether it called
\* the fetch function, and cleanup_old's count.
NoCall == [op |-> "none", key |-> "k1", pre |-> NoFile, memo |-> NoHist,
           ret |-> PyNone, exc |-> "none", fetched |-> FALSE, count |-> 0]

CacheInit ==
    /\ store = [k \in Keys |-> NoFile]
    /\ today = 0
    /\ hist = [k \in Keys |-> NoHist]
    /\ last = NoCall

Get(k) ==
    \E o \in {GetOutcome(store[k], today)} :
    /\ store' = [store EXCEPT ![k] = o.file]
    /\ last' = [NoCall EXCEPT !.op = "get", !.key = k, !.pre = store[k],
                              !.ret = o.ret, !.exc = o.exc]
    /\ UNCHANGED <<today, hist, concVars, gtfsVars, feedVars>>

Set(k, value, io) ==
    /\ store' = [store EXCEPT ![k] = SetOutcome(store[k], value, today, io)]
    /\ hist' = [hist EXCEPT ![k] = Attempt(value, io, store[k], today)]
    /\ last' = [NoCall EXCEPT !.op = "set", !.key = k]
    /\ UNCHANGED <<today, concVars, gtfsVars, feedVars>>

Delete(k) ==
    /\ store' = [store EXCEPT ![k] = NoFile]
    /\ hist' = [hist EXCEPT ![k] = NoHist]
    /\ last' = [NoCall EXCEPT !.op = "delete", !.key = k]
    /\ UNCHANGED <<today, concVars, gtfsVars, feedVars>>

Clear ==
    /\ store' = [k \in Keys |-> NoFile]
    /\ hist' = [k \in Keys |-> NoHist]
    /\ last' = [NoCall EXCEPT !.op = "clear"]
    /\ UNCHANGED <<today, concVars, gtfsVars, feedVars>>

(***************************************************************************)
(* DailyCache.cleanup_old.  glob yields the files in an order the file     *)
(* system chooses; an exception the handler does not catch ends the loop.  *)
(***************************************************************************)
GlobOrders(st) ==
    LET files == {k \in Keys : st[k] # NoFile} IN
    {o \in [1..Cardinality(files) -> files] :
        \A i, j \in 1..Cardinality(files) : i # j => o[i] # o[j]}

\* What the loop body does with one file: "keep", "remove", or the
\* exception that escapes.
CleanupStep(f, day) ==
    IF f \in {Unreadable, Garbage, Empty}
    THEN "remove"
    ELSE IF f = BadBytes
    THEN "UnicodeDecodeError"
    ELSE IF JsonLoad(f[2])[1] # "dict"
    THEN "AttributeError"
    ELSE IF DictGet(JsonLoad(f[2]), "date") # TodayStr(day)
    THEN "remove"
    ELSE "keep"

RECURSIVE CleanupLoop(_, _, _, _, _)
CleanupLoop(order, i, st, removed_count, day) ==
    IF i > Len(order)
    THEN [store |-> st, count |-> removed_count, exc |-> "none"]
    ELSE LET step == CleanupStep(st[order[i]], day) IN
         CASE step = "keep" -> CleanupLoop(order, i + 1, st, removed_count, day)
           [] step = "remove" ->
                CleanupLoop(order, i + 1, [st EXCEPT ![order[i]] = NoFile],
                            removed_count + 1, day)
           [] OTHER -> [store |-> st, count |-> removed_count, exc |-> step]

CleanupOld(order) ==
    \E o \in {CleanupLoop(order, 1, store, 0, today)} :
    /\ store' = o.store
    /\ hist' = [k \in Keys |-> IF o.store[k] = store[k] THEN hist[k] ELSE NoHist]
    /\ last' = [NoCall EXCEPT !.op = "cleanup_old", !.exc = o.exc,
                              !.count = IF o.exc = "none" THEN o.count ELSE 0]
    /\ UNCHANGED <<today, concVars, gtfsVars, feedVars>>

(***************************************************************************)
(* The environment: midnight passes; a file is damaged or replaced by      *)
(* something other than DailyCache.set.                                    *)
(***************************************************************************)
DayAdvance ==
    /\ today < MaxDay
    /\ today' = today + 1
    /\ hist' = [k \in Keys |-> NoHist]
    /\ last' = NoCall
    /\ UNCHANGED <<store, concVars, gtfsVars, feedVars>>

Corrupt(k, f) ==
    /\ store' = [store EXCEPT ![k] = f]
    /\ hist' = [hist EXCEPT ![k] = NoHist]
    /\ last' = NoCall
    /\ UNCHANGED <<today, concVars, gtfsVars, feedVars>>

(***************************************************************************)
(* api_cache.get_cached_or_fetch(cache_key, fetch_function): fresh is what *)
(* the fetch function returns when it is called, io what the file system   *)
(* does to set_cached's write.                                             *)
(***************************************************************************)
\* get_cached_or_fetch without the call of set_cached
AfterGetCached_NoStore(cached, fresh, day, io) ==
    IF cached.exc # "none"
    THEN [ret |-> PyNone, exc |-> cached.exc, file |-> cached.file, fetched |-> FALSE]
    ELSE IF cached.ret # PyNone
    THEN [ret |-> cached.ret, exc |-> "none", file |-> cached.file, fetched |-> FALSE]
    ELSE [ret |-> fresh, exc |-> "none", file |-> cached.file, fetched |-> TRUE]

\* get_cached_or_fetch that keeps status:error results out of the cache (a
\* faulty variant)
AfterGetCached_SkipsErrors(cached, fresh, day, io) ==
    IF cached.exc # "none"
    THEN [ret |-> PyNone, exc |-> cached.exc, file |-> cached.file, fetched |-> FALSE]
    ELSE IF cached.ret # PyNone
    THEN [ret |-> cached.ret, exc |-> "none", file |-> cached.file, fetched |-> FALSE]
    ELSE [ret |-> fresh, exc |-> "none",
          file |-> IF fresh[1] = "dict" /\ DictGet(fresh, "status") = PyStr("error")
                   THEN cached.file
                   ELSE SetOutcome(cached.file, fresh, day, io),
          fetched |-> TRUE]

AfterGetCached(cached, fresh, day, io) ==
    IF cached.exc # "none"
    THEN [ret |-> PyNone, exc |-> cached.exc, file |-> cached.file, fetched |-> FALSE]
    ELSE IF cached.ret # PyNone
    THEN [ret |-> cached.ret, exc |-> "none", file |-> cached.file, fetched |-> FALSE]
    ELSE [ret |-> fresh, exc |-> "none",
          file |-> SetOutcome(cached.file, fresh, day, io), fetched |-> TRUE]

FetchOutcome(f, fresh, day, io) == AfterGetCached(GetOutcome(f, day), fresh, day, io)

GetCachedOrFetch(k, fresh, io) ==
    \E o \in {FetchOutcome(store[k], fresh, today, io)} :
    /\ store' = [store EXCEPT ![k] = o.file]
    /\ hist' = [hist EXCEPT ![k] = IF o.fetched
                                   THEN Attempt(fresh, io, NoFile, today)
                                   ELSE @]
    /\ last' = [NoCall EXCEPT !.op = "get_cached_or_fetch", !.key = k,
                              !.pre = store[k], !.memo = hist[k], !.ret = o.ret,
                              !.exc = o.exc, !.fetched = o.fetched]
    /\ UNCHANGED <<today, concVars, gtfsVars, feedVars>>


(***************************************************************************)
(* Two callers on one DailyCache.  Nothing in cache.py or api_cache.py     *)
(* takes a lock, so the callers interleave at the file-system calls: get   *)
(* is exists(), then open+json.load, then (for an outdated or unparsable   *)
(* file) unlink; set is open(path, "w"), which creates or truncates, then  *)
(* the write that the end of the with block flushes; delete is unlink.     *)
(* A caller that has a file open keeps writing to it after the path is     *)
(* unlinked: its handle is then orphaned and its bytes are never seen.     *)
(***************************************************************************)
Procs == {"p1", "p2"}
ConcValues ==
    { PyInt("1"),
      PyDict(<< <<PyStr("a"), PyList(<<PyInt("1"), PyStr("b")>>)>> >>) }

NoOp == [op |-> "none", key |-> "k1", value |-> PyNone, day |-> 0]
NoResult == [ret |-> PyNone, exc |-> "none"]

\* The length of the text of a JSON value, counted in its nodes.
RECURSIVE JsonSize(_)
RECURSIVE SumSizes(_, _)
SumSizes(xs, i) ==
    IF i > Len(xs) THEN 0
    ELSE (IF xs[i][1] \in {"null", "number", "string", "array", "object"}
          THEN JsonSize(xs[i]) ELSE JsonSize(xs[i][2])) + SumSizes(xs, i + 1)
JsonSize(j) ==
    IF j[1] \in {"array", "object"} THEN 1 + SumSizes(j[2], 1) ELSE 1

FileSize(f) == IF IsText(f) THEN JsonSize(f[2]) ELSE 0

\* A write of the whole text new at offset 0 of a file holding cur: the
\* bytes of cur beyond the end of new stay.
Overwrite(cur, new) == IF FileSize(new) >= FileSize(cur) THEN new ELSE Garbage

\* unlink(path) by a get or by a delete: every handle open on the file at
\* that path is orphaned.
Orphaned(k, by) ==
    [q \in Procs |-> IF call[q].key = k /\ handle[q] = "linked"
                     THEN by ELSE handle[q]]

ConcInit ==
    /\ pc = [p \in Procs |-> "idle"]
    /\ call = [p \in Procs |-> NoOp]
    /\ handle = [p \in Procs |-> "none"]
    /\ done = [k \in Keys |-> FALSE]
    /\ res = [p \in Procs |-> NoResult]

StartGet(p, k) ==
    /\ pc[p] = "idle"
    /\ pc' = [pc EXCEPT ![p] = "get_exists"]
    /\ call' = [call EXCEPT ![p] = [NoOp EXCEPT !.op = "get", !.key = k]]
    /\ UNCHANGED <<cacheVars, handle, done, res, gtfsVars, feedVars>>

GetExists(p) ==
    /\ pc[p] = "get_exists"
    /\ IF store[call[p].key] = NoFile
       THEN /\ pc' = [pc EXCEPT ![p] = "idle"]
            /\ res' = [res EXCEPT ![p] = NoResult]
       ELSE /\ pc' = [pc EXCEPT ![p] = "get_read"]
            /\ UNCHANGED res
    /\ UNCHANGED <<cacheVars, call, handle, done, gtfsVars, feedVars>>

\* open(cache_path, "r") and json.load; a file deleted since exists() makes
\* open raise FileNotFoundError, an OSError, which the handler catches.
GetRead(p) ==
    /\ pc[p] = "get_read"
    /\ \E o \in {GetOutcome(store[call[p].key], today)} :
          IF o.branch \in {"fresh", "raise"}
          THEN /\ pc' = [pc EXCEPT ![p] = "idle"]
               /\ res' = [res EXCEPT ![p] = [ret |-> o.ret, exc |-> o.exc]]
          ELSE /\ pc' = [pc EXCEPT ![p] = "get_unlink"]
               /\ UNCHANGED res
    /\ UNCHANGED <<cacheVars, call, handle, done, gtfsVars, feedVars>>

GetUnlink(p) ==
    /\ pc[p] = "get_unlink"
    /\ store' = [store EXCEPT ![call[p].key] = NoFile]
    /\ handle' = Orphaned(call[p].key, "unlinked_by_get")
    /\ pc' = [pc EXCEPT ![p] = "idle"]
    /\ res' = [res EXCEPT ![p] = NoResult]
    /\ UNCHANGED <<today, hist, last, call, done, gtfsVars, feedVars>>

StartSet(p, k, value) ==
    /\ pc[p] = "idle"
    /\ pc' = [pc EXCEPT ![p] = "set_open"]
    /\ call' = [call EXCEPT ![p] = [op |-> "set", key |-> k, value |-> value,
                                    day |-> today]]
    /\ UNCHANGED <<cacheVars, handle, done, res, gtfsVars, feedVars>>

SetOpen(p) ==
    /\ pc[p] = "set_open"
    /\ store' = [store EXCEPT ![call[p].key] = Empty]
    /\ handle' = [handle EXCEPT ![p] = "linked"]
    /\ pc' = [pc EXCEPT ![p] = "set_write"]
    /\ UNCHANGED <<today, hist, last, call, done, res, gtfsVars, feedVars>>

SetWrite(p) ==
    /\ pc[p] = "set_write"
    /\ store' = IF handle[p] = "linked"
                THEN [store EXCEPT ![call[p].key] =
                        Overwrite(@, EntryFile(call[p].value, call[p].day))]
                ELSE store
    /\ handle' = [handle EXCEPT ![p] = "none"]
    /\ done' = [done EXCEPT ![call[p].key] =
                    call[p].day = today /\ handle[p] # "unlinked_by_delete"]
    /\ pc' = [pc EXCEPT ![p] = "idle"]
    /\ res' = [res EXCEPT ![p] = NoResult]
    /\ UNCHANGED <<today, hist, last, call, gtfsVars, feedVars>>

StartDelete(p, k) ==
    /\ pc[p] = "idle"
    /\ pc' = [pc EXCEPT ![p] = "delete_unlink"]
    /\ call' = [call EXCEPT ![p] = [NoOp EXCEPT !.op = "delete", !.key = k]]
    /\ UNCHANGED <<cacheVars, handle, done, res, gtfsVars, feedVars>>

DeleteUnlink(p) ==
    /\ pc[p] = "delete_unlink"
    /\ store' = [store EXCEPT ![call[p].key] = NoFile]
    /\ handle' = Orphaned(call[p].key, "unlinked_by_delete")
    /\ done' = [done EXCEPT ![call[p].key] = FALSE]
    /\ pc' = [pc EXCEPT ![p] = "idle"]
    /\ res' = [res EXCEPT ![p] = NoResult]
    /\ UNCHANGED <<today, hist, last, call, gtfsVars, feedVars>>

Midnight ==
    /\ today < MaxDay
    /\ today' = today + 1
    /\ done' = [k \in Keys |-> FALSE]
    /\ UNCHANGED <<store, hist, last, pc, call, handle, res, gtfsVars, feedVars>>


(***************************************************************************)
(* The service-day resolution of GTFSAnalyzer.get_bus_count_by_hour_day:   *)
(* which of the service ids of the hour's trips run on the target date.    *)
(* A date is the int of its YYYYMMDD text, as in the feed's columns.       *)
(***************************************************************************)
ADDED == 1
REMOVED == 2

Services == {"S1", "S2"}

\* datetime.strptime(target_date, "%Y%m%d")
Year(n) == n \div 10000
Month(n) == (n \div 100) % 100
DayOfMonth(n) == n % 100

IsLeap(y) == y % 4 = 0 /\ (y % 100 # 0 \/ y % 400 = 0)
DaysInMonth(y, m) ==
    IF m = 2 THEN (IF IsLeap(y) THEN 29 ELSE 28)
    ELSE IF m \in {4, 6, 9, 11} THEN 30 ELSE 31

RECURSIVE DaysBeforeMonth(_, _)
DaysBeforeMonth(y, m) ==
    IF m = 1 THEN 0 ELSE DaysBeforeMonth(y, m - 1) + DaysInMonth(y, m - 1)

DaysBeforeYear(y) ==
    (y - 1) * 365 + (y - 1) \div 4 - (y - 1) \div 100 + (y - 1) \div 400

\* datetime.toordinal(): 0001-01-01 is day 1
ToOrdinal(n) ==
    DaysBeforeYear(Year(n)) + DaysBeforeMonth(Year(n), Month(n)) + DayOfMonth(n)

\* datetime.weekday(): Monday is 0, Sunday is 6
Weekday(n) == (ToOrdinal(n) + 6) % 7

day_columns ==
    <<"monday", "tuesday", "wednesday", "thursday", "friday", "saturday", "sunday">>

\* the rows of calendar_df for service_ids whose range holds target_date and
\* whose column of the weekday is 1, with the end date excluded (a faulty variant)
RegularServices_EndExclusive(calendar, service_ids, target_date) ==
    LET day_column == day_columns[Weekday(target_date) + 1] IN
    { r.service_id : r \in
        { r \in calendar :
            /\ r.service_id \in service_ids
            /\ r.start_date <= target_date
            /\ r.end_date > target_date
            /\ r[day_column] = 1 } }

RegularServices(calendar, service_ids, target_date) ==
    LET day_column == day_columns[Weekday(target_date) + 1] IN
    { r.service_id : r \in
        { r \in calendar :
            /\ r.service_id \in service_ids
            /\ r.start_date <= target_date
            /\ r.end_date >= target_date
            /\ r[day_column] = 1 } }

DateServices(calendar_dates, service_ids, target_date) ==
    { e \in calendar_dates : e.date = target_date /\ e.service_id \in service_ids }

AddedServices(date_services) ==
    { e.service_id : e \in { x \in date_services : x.exception_type = ADDED } }

RemovedServices(date_services) ==
    { e.service_id : e \in { x \in date_services : x.exception_type = REMOVED } }

\* the additions applied after the removals (a faulty variant)
RunningServices_AddedLast(regular_services, added_services, removed_services) ==
    (regular_services \ removed_services) \cup added_services

RunningServices(regular_services, added_services, removed_services) ==
    (regular_services \cup added_services) \ removed_services

\* The feeds and the queries tried.
QueryDates == {20240229, 20240301, 20240303, 20240304}

Flags(days) == [c \in {day_columns[i] : i \in 1..7} |-> IF c \in days THEN 1 ELSE 0]
WorkingDays == Flags({"monday", "tuesday", "wednesday", "thursday", "friday"})
Weekends == Flags({"saturday", "sunday"})

CalendarRow(service_id, flags, start_date, end_date) ==
    [c \in DOMAIN flags \cup {"service_id", "start_date", "end_date"} |->
        CASE c = "service_id" -> service_id
          [] c = "start_date" -> start_date
          [] c = "end_date" -> end_date
          [] OTHER -> flags[c]]

CalendarRows ==
    { CalendarRow("S1", WorkingDays, 20240201, 20240301),
      CalendarRow("S1", WorkingDays, 20240304, 20240331),
      CalendarRow("S1", Weekends, 20240303, 20240331),
      CalendarRow("S2", WorkingDays, 20240301, 20240331),
      CalendarRow("S2", Weekends, 20240201, 20240303) }

CalendarDatesRows ==
    { [service_id |-> "S1", date |-> 20240301, exception_type |-> ADDED],
      [service_id |-> "S1", date |-> 20240301, exception_type |-> REMOVED],
      [service_id |-> "S2", date |-> 20240301, exception_type |-> REMOVED],
      [service_id |-> "S2", date |-> 20240303, exception_type |-> ADDED],
      [service_id |-> "S2", date |-> 20240304, exception_type |-> ADDED] }

NoQuery == [target_date |-> 0, service_ids |-> {}, regular_services |-> {},
            running_services |-> {}]

GtfsIdle ==
    /\ calendar_df = {}
    /\ calendar_dates_df = {}
    /\ resolved = NoQuery

\* GTFSAnalyzer._load_data: the tables are read once
GtfsInit ==
    /\ calendar_df \in SUBSET CalendarRows
    /\ calendar_dates_df \in SUBSET CalendarDatesRows
    /\ resolved = NoQuery

Resolve(target_date, service_ids) ==
    /\ \E regular_services \in {RegularServices(calendar_df, service_ids, target_date)},
          date_services \in {DateServices(calendar_dates_df, service_ids, target_date)} :
          resolved' =
            [target_date |-> target_date,
             service_ids |-> service_ids,
             regular_services |-> regular_services,
             running_services |->
                RunningServices(regular_services, AddedServices(date_services),
                                RemovedServices(date_services))]
    /\ UNCHANGED <<cacheVars, concVars, calendar_df, calendar_dates_df, feedVars>>

(***************************************************************************)
(* parse_gtfs_time_and_date(time_str, service_date_str), the function      *)
(* get_bus_count_by_hour_day applies to the arrival_time of every row.     *)
(* A str is the sequence of its characters, so that split and int work on  *)
(* the text; the float nan is what pandas gives for an empty cell.         *)
(***************************************************************************)
Str(chars) == <<"str", chars>>
NaN == <<"float", "nan">>

DigitChars == {"0", "1", "2", "3", "4", "5", "6", "7", "8", "9"}

DigitValue(c) ==
    CASE c = "0" -> 0 [] c = "1" -> 1 [] c = "2" -> 2 [] c = "3" -> 3
      [] c = "4" -> 4 [] c = "5" -> 5 [] c = "6" -> 6 [] c = "7" -> 7
      [] c = "8" -> 8 [] c = "9" -> 9

\* str.split(":"): the fields between the colons, at least one
RECURSIVE Split(_)
Split(chars) ==
    IF \A i \in 1..Len(chars) : chars[i] # ":"
    THEN <<chars>>
    ELSE LET i == CHOOSE j \in 1..Len(chars) :
                    chars[j] = ":" /\ \A k \in 1..(j - 1) : chars[k] # ":"
         IN  <<SubSeq(chars, 1, i - 1)>> \o Split(SubSeq(chars, i + 1, Len(chars)))

\* int(field): an optional sign and decimal digits, a ValueError otherwise
\* (the blanks and underscores int also takes are in none of the texts tried)
IsIntText(field) ==
    LET digits == IF Len(field) > 0 /\ field[1] \in {"+", "-"} THEN Tail(field) ELSE field
    IN  Len(digits) > 0 /\ \A i \in 1..Len(digits) : digits[i] \in DigitChars

RECURSIVE DigitsValue(_)
DigitsValue(digits) ==
    IF digits = <<>> THEN 0
    ELSE 10 * DigitsValue(SubSeq(digits, 1, Len(digits) - 1))
            + DigitValue(digits[Len(digits)])

IntOf(field) ==
    IF field[1] = "-" THEN 0 - DigitsValue(Tail(field))
    ELSE IF field[1] = "+" THEN DigitsValue(Tail(field))
    ELSE DigitsValue(field)

\* datetime.strptime(service_date_str, "%Y%m%d") raises a ValueError on a
\* day that the calendar does not have
IsDate(n) ==
    /\ Year(n) \in 1..9999
    /\ Month(n) \in 1..12
    /\ DayOfMonth(n) \in 1..DaysInMonth(Year(n), Month(n))

\* (service_date + timedelta(days=1)).strftime("%Y%m%d")
NextDay(n) ==
    IF DayOfMonth(n) < DaysInMonth(Year(n), Month(n)) THEN n + 1
    ELSE IF Month(n) < 12 THEN Year(n) * 10000 + (Month(n) + 1) * 100 + 1
    ELSE (Year(n) + 1) * 10000 + 101

\* the hour of the first field whatever the number of fields (a faulty variant)
parse_gtfs_time_and_date_FirstField(time_str, service_date_str) ==
    IF time_str[1] # "str" THEN <<0, service_date_str>>
    ELSE LET fields == Split(time_str[2]) IN
         IF ~IsIntText(fields[1]) \/ ~IsDate(service_date_str)
         THEN <<0, service_date_str>>
         ELSE LET hours == IntOf(fields[1]) IN
              IF hours >= 24 THEN <<hours - 24, NextDay(service_date_str)>>
              ELSE <<hours, service_date_str>>

parse_gtfs_time_and_date(time_str, service_date_str) ==
    IF time_str[1] # "str"
    THEN <<0, service_date_str>>            \* AttributeError: no split
    ELSE LET fields == Split(time_str[2]) IN
         IF \/ \E i \in 1..Len(fields) : i <= 3 /\ ~IsIntText(fields[i])
            \/ Len(fields) # 3
            \/ ~IsDate(service_date_str)
         THEN <<0, service_date_str>>       \* ValueError
         ELSE LET hours == IntOf(fields[1]) IN
              IF hours >= 24
              THEN <<hours - 24, NextDay(service_date_str)>>
              ELSE <<hours, service_date_str>>

\* The texts and dates tried.
Chars(hh, mm) == Str(hh \o <<":">> \o mm \o <<":", "0", "0">>)

WellFormedTimes ==
    { Chars(hh, mm) :
        hh \in { <<"0", "0">>, <<"0", "8">>, <<"2", "3">>, <<"2", "4">>,
                 <<"2", "5">>, <<"4", "7">>, <<"4", "8">>, <<"9", "9">> },
        mm \in { <<"0", "0">>, <<"3", "0">>, <<"5", "9">> } }

MalformedTimes ==
    { Str(<<"b", "a", "d">>),
      Str(<<>>),
      Str(<<"0", "8", ":", "0", "0">>),
      Str(<<"0", "8", ":", "0", "0", ":", "0", "0", ":", "0", "0">>),
      Str(<<"0", "8", ":", "x", "x", ":", "0", "0">>),
      Str(<<"2", "5", ":", "0", "0", ":">>),
      Str(<<"x", ":", "0", "0", ":", "0", "0">>),
      NaN,
      <<"int", 8>>,
      <<"none">> }

ServiceDates == {20230228, 20240228, 20240229, 20240301, 20241231}

(***************************************************************************)
(* GTFSAnalyzer.get_bus_count_by_hour_day and _fetch_bus_stops_by_hour.    *)
(* Coordinates are in hundredths of a degree.  A DataFrame is the set of   *)
(* its rows; stop_sequence keeps two rows of one trip at one stop apart.   *)
(***************************************************************************)
\* The files of the feed directory and the attribute each is read into, in
\* the order _load_data reads them.
FeedFiles ==
    <<"stops.txt", "trips.txt", "calendar_dates.txt", "calendar.txt", "stop_times.txt">>
Tables ==
    <<"stops_df", "trips_df", "calendar_dates_df", "calendar_df", "stop_times_df">>

WholeFolder == [readable |-> { FeedFiles[i] : i \in 1..Len(FeedFiles) }, fits |-> TRUE]

\* _load_data: the tables that are not None afterwards.  The reads are in
\* one try block, so the first file that cannot be read ends the loading;
\* a MemoryError on stop_times.txt leaves stop_times_df None.
LoadData(folder) ==
    { Tables[i] : i \in { j \in 1..Len(FeedFiles) :
        /\ \A k \in 1..j : FeedFiles[k] \in folder.readable
        /\ FeedFiles[j] = "stop_times.txt" => folder.fits } }

\* str.lower(), on the names tried
Lower(city) ==
    CASE city = "Porto" -> "porto"
      [] city = "LISBON" -> "lisbon"
      [] OTHER -> city

city_boundaries ==
    [porto  |-> [lat_min |-> 4102, lat_max |-> 4127, lon_min |-> -875, lon_max |-> -845],
     london |-> [lat_min |-> 5128, lat_max |-> 5170, lon_min |-> -52,  lon_max |-> 33],
     lisbon |-> [lat_min |-> 3868, lat_max |-> 3883, lon_min |-> -925, lon_max |-> -905],
     berlin |-> [lat_min |-> 5233, lat_max |-> 5267, lon_min |-> 1309, lon_max |-> 1377]]

\* the bounds themselves left out (a faulty variant)
get_city_stops_Exclusive(city) ==
    IF Lower(city) \notin DOMAIN city_boundaries THEN {}
    ELSE IF "stops_df" \notin loaded THEN {}
    ELSE LET bounds == city_boundaries[Lower(city)] IN
         { st \in stops_df :
             /\ st.stop_lat > bounds.lat_min
             /\ st.stop_lat < bounds.lat_max
             /\ st.stop_lon > bounds.lon_min
             /\ st.stop_lon < bounds.lon_max
             /\ st.location_type = 1 }

get_city_stops(city) ==
    IF Lower(city) \notin DOMAIN city_boundaries THEN {}
    ELSE IF "stops_df" \notin loaded THEN {}
    ELSE LET bounds == city_boundaries[Lower(city)] IN
         { st \in stops_df :
             /\ st.stop_lat >= bounds.lat_min
             /\ st.stop_lat <= bounds.lat_max
             /\ st.stop_lon >= bounds.lon_min
             /\ st.stop_lon <= bounds.lon_max
             /\ st.location_type = 1 }

\* _load_stop_times_chunked(stop_ids), as the set of its rows: from the
\* table when it is resident, else from the file, and no rows when the file
\* cannot be read
LoadStopTimes(stop_ids) ==
    IF "stop_times_df" \in loaded
    THEN { r \in stop_times_df : r.stop_id \in stop_ids }
    ELSE IF "stop_times.txt" \in gtfs_folder.readable
    THEN { r \in stop_times_txt : r.stop_id \in stop_ids }
    ELSE {}

\* the rows whose arrival does not parse left out (a faulty variant)
HourlyStops_ParsedOnly(stop_times, target_date, target_hour) ==
    { r \in stop_times :
        /\ r.arrival_time[1] = "str"
        /\ Len(Split(r.arrival_time[2])) = 3
        /\ \A i \in 1..3 : IsIntText(Split(r.arrival_time[2])[i])
        /\ parse_gtfs_time_and_date(r.arrival_time, target_date)
              = <<target_hour, target_date>> }

\* the rows whose arrival, read with the target date as its service date,
\* falls in the target hour of the target date
HourlyStops(stop_times, target_date, target_hour) ==
    { r \in stop_times :
        parse_gtfs_time_and_date(r.arrival_time, target_date)
            = <<target_hour, target_date>> }

\* the rows of every trip, running or not (a faulty variant)
FinalStops_AllTrips(hourly_stops, running_trips) == hourly_stops

FinalStops(hourly_stops, running_trips) ==
    { r \in hourly_stops : r.trip_id \in { t.trip_id : t \in running_trips } }

\* The order of str on the stop ids of the feeds tried.
StopIdsAscending == <<"A", "B", "C", "D">>
Position(seq, x) == CHOOSE i \in 1..Len(seq) : seq[i] = x

\* final_stops.groupby("stop_id").size().reset_index(name="bus_count"),
\* merged with the stop's columns: one record a stop that has rows, in the
\* order of the stop ids
RECURSIVE StopCounts(_, _, _)
StopCounts(final_stops, city_stops, i) ==
    IF i > Len(StopIdsAscending) THEN <<>>
    ELSE LET rows == { r \in final_stops : r.stop_id = StopIdsAscending[i] }
             st == CHOOSE x \in city_stops : x.stop_id = StopIdsAscending[i]
         IN  (IF rows = {} THEN <<>>
              ELSE << [stop_id |-> st.stop_id, stop_lat |-> st.stop_lat,
                       stop_lon |-> st.stop_lon, bus_count |-> Cardinality(rows)] >>)
             \o StopCounts(final_stops, city_stops, i + 1)

\* result.sort_values("bus_count", ascending=False): pandas' default kind is
\* quicksort, which does not promise an order among equal counts; ties is
\* the order this build's sort leaves them in
RECURSIVE SortValues(_, _)
SortValues(records, ties) ==
    IF records = <<>> THEN <<>>
    ELSE LET first == CHOOSE i \in 1..Len(records) :
                        \A j \in 1..Len(records) :
                            \/ records[i].bus_count > records[j].bus_count
                            \/ /\ records[i].bus_count = records[j].bus_count
                               /\ Position(ties, records[i].stop_id)
                                    <= Position(ties, records[j].stop_id)
         IN  <<records[first]>>
             \o SortValues(SubSeq(records, 1, first - 1)
                            \o SubSeq(records, first + 1, Len(records)), ties)

RECURSIVE SumBusCount(_)
SumBusCount(records) ==
    IF records = <<>> THEN 0
    ELSE records[1].bus_count + SumBusCount(Tail(records))

get_bus_count_by_hour_day(city, target_date, target_hour) ==
    LET city_stops == get_city_stops(city)
        stop_times == LoadStopTimes({ st.stop_id : st \in city_stops })
        hourly_stops == HourlyStops(stop_times, target_date, target_hour)
        trips == { t \in trips_df : t.trip_id \in { r.trip_id : r \in hourly_stops } }
        service_ids == { t.service_id : t \in trips }
        date_services == DateServices(calendar_dates_df, service_ids, target_date)
        running_services ==
            RunningServices(RegularServices(calendar_df, service_ids, target_date),
                            AddedServices(date_services),
                            RemovedServices(date_services))
        running_trips == { t \in trips : t.service_id \in running_services }
        final_stops == FinalStops(hourly_stops, running_trips)
        result == SortValues(StopCounts(final_stops, city_stops, 1), sort_ties)
    IN  IF city_stops = {} THEN [error |-> "No stops found"]
        ELSE IF stop_times = {} THEN [error |-> "No stop times found"]
        ELSE IF "trips_df" \notin loaded
        THEN [error |-> "Failed to analyze bus data"]   \* None.iterrows()
        ELSE IF hourly_stops = {} THEN [error |-> "No buses found"]
        ELSE IF "calendar_df" \notin loaded \/ "calendar_dates_df" \notin loaded
        THEN [error |-> "Failed to analyze bus data"]   \* None[...]
        ELSE [city |-> city,
              date |-> target_date,
              hour |-> target_hour,
              total_buses |-> SumBusCount(result),
              total_stops |-> Len(result),
              stops |-> result]

fetch_bus_stops_by_hour(city, target_date, hour) ==
    LET result == get_bus_count_by_hour_day(city, target_date, hour) IN
    IF "error" \in DOMAIN result
    THEN [status |-> "error", error_message |-> result.error]
    ELSE [c \in {"status"} \cup DOMAIN result |->
            IF c = "status" THEN "success" ELSE result[c]]

\* The feeds tried.  Stops A and B are parent stations in Porto, C is a
\* platform in Porto, D is a parent station in Lisbon that no trip serves.
StopRows ==
    { [stop_id |-> "A", stop_lat |-> 4115, stop_lon |-> -861, location_type |-> 1],
      [stop_id |-> "B", stop_lat |-> 4127, stop_lon |-> -845, location_type |-> 1],
      [stop_id |-> "C", stop_lat |-> 4116, stop_lon |-> -860, location_type |-> 0],
      [stop_id |-> "D", stop_lat |-> 3872, stop_lon |-> -914, location_type |-> 1] }

TripRows ==
    { [trip_id |-> "T1", service_id |-> "S1"],
      [trip_id |-> "T2", service_id |-> "S2"] }

StopTime(trip_id, stop_id, arrival_time, stop_sequence) ==
    [trip_id |-> trip_id, stop_id |-> stop_id, arrival_time |-> arrival_time,
     stop_sequence |-> stop_sequence]

At(h1, h2, m1, m2) == Chars(<<h1, h2>>, <<m1, m2>>)

\* T9 is a trip that trips.txt does not have
StopTimeRows ==
    { StopTime("T1", "A", At("0", "8", "0", "0"), 1),
      StopTime("T1", "B", At("0", "8", "3", "0"), 2),
      StopTime("T2", "A", At("0", "8", "3", "0"), 1),
      StopTime("T2", "B", At("0", "9", "0", "0"), 2),
      StopTime("T1", "A", At("2", "5", "3", "0"), 3),
      StopTime("T1", "B", NaN, 4),
      StopTime("T9", "A", At("0", "8", "0", "0"), 1),
      StopTime("T2", "C", At("0", "8", "0", "0"), 3) }

\* S1 runs on working days to 1 March, S2 on working days from 1 March
FeedCalendarRows ==
    { CalendarRow("S1", WorkingDays, 20240201, 20240301),
      CalendarRow("S2", WorkingDays, 20240301, 20240331) }

FeedCalendarDatesRows ==
    { [service_id |-> "S1", date |-> 20240301, exception_type |-> REMOVED] }

\* the order a stable sort leaves equal counts in, and another
TieOrders == { <<"A", "B", "C", "D">>, <<"B", "A", "C", "D">> }

Cities == {"porto", "lisbon", "paris"}
FeedDates == {20240229, 20240301}
FeedHours == {0, 1, 8, 9}

NoArrivals == [city |-> "", target_date |-> 0, hour |-> 0, ret |-> [status |-> "none"]]
NoPeak == [city |-> "", target_date |-> 0, ret |-> [status |-> "none"]]
NoStops == [city |-> "", ret |-> {}, asked |-> FALSE]
NoTool == [op |-> "none", city |-> "", date |-> <<"none">>, hour |-> 0, io |-> "ok",
           key |-> "", pre |-> NoFile, memo |-> NoHist, ret |-> PyNone,
           exc |-> "none", cached |-> FALSE, fetched |-> FALSE]
NoRead == [table |-> <<>>, stop_ids |-> {}, chunk_size |-> 0, read |-> FALSE,
           resident |-> <<>>, windowed |-> <<>>]

FetchBusStopsByHour(city, target_date, hour) ==
    /\ \E ret \in {fetch_bus_stops_by_hour(city, target_date, hour)} :
          arrivals' = [city |-> city, target_date |-> target_date, hour |-> hour,
                       ret |-> ret]
    /\ UNCHANGED <<cacheVars, concVars, gtfsVars, stops_df, trips_df,
                   stop_times_df, sort_ties, parsed, peak, chunked, gtfs_folder,
                   loaded, stop_times_txt, found, tool>>

NoParse == [time_str |-> <<"none">>, service_date_str |-> 0, ret |-> <<0, 0>>]

ParseTime(time_str, service_date_str) ==
    /\ parsed' = [time_str |-> time_str,
                  service_date_str |-> service_date_str,
                  ret |-> parse_gtfs_time_and_date(time_str, service_date_str)]
    /\ UNCHANGED <<cacheVars, concVars, gtfsVars, stops_df, trips_df,
                   stop_times_df, sort_ties, arrivals, peak, chunked, gtfs_folder,
                   loaded, stop_times_txt, found, tool>>

FeedIdle ==
    /\ stops_df = {}
    /\ trips_df = {}
    /\ stop_times_df = {}
    /\ sort_ties = <<>>
    /\ parsed = NoParse
    /\ arrivals = NoArrivals
    /\ peak = NoPeak
    /\ chunked = NoRead
    /\ gtfs_folder = WholeFolder
    /\ loaded = LoadData(gtfs_folder)
    /\ stop_times_txt = stop_times_df
    /\ found = NoStops
    /\ tool = NoTool

\* GTFSAnalyzer._load_data, on each feed tried
FeedInit ==
    /\ stops_df = StopRows
    /\ trips_df = TripRows
    /\ stop_times_df \in SUBSET StopTimeRows
    /\ calendar_df \in SUBSET FeedCalendarRows
    /\ calendar_dates_df \in SUBSET FeedCalendarDatesRows
    /\ resolved = NoQuery
    /\ sort_ties \in TieOrders
    /\ parsed = NoParse
    /\ arrivals = NoArrivals
    /\ peak = NoPeak
    /\ chunked = NoRead
    /\ gtfs_folder = WholeFolder
    /\ loaded = LoadData(gtfs_folder)
    /\ stop_times_txt = stop_times_df
    /\ found = NoStops
    /\ tool = NoTool

(***************************************************************************)
(* GTFSAnalyzer.get_daily_summary and _fetch_bus_peak_hours.  A dict is    *)
(* the sequence of its items in insertion order.                           *)
(***************************************************************************)
HoursOfDay == 24
TopN == 3

\* sum(hourly_counts.values())
RECURSIVE SumHours(_, _)
SumHours(hourly_counts, hour) ==
    IF hour \notin DOMAIN hourly_counts THEN 0
    ELSE hourly_counts[hour] + SumHours(hourly_counts, hour + 1)

\* the breakdown stops at the first hour that fails (a faulty variant)
get_daily_summary_StopsAtError(city, target_date) ==
    LET failed == { h \in 0..(HoursOfDay - 1) :
                      "error" \in DOMAIN get_bus_count_by_hour_day(city, target_date, h) }
        hourly_counts ==
            [hour \in { h \in 0..(HoursOfDay - 1) : \A f \in failed : h < f } |->
                get_bus_count_by_hour_day(city, target_date, hour).total_buses]
    IN  [city |-> city, date |-> target_date,
         total_buses |-> SumHours(hourly_counts, 0),
         hourly_breakdown |-> hourly_counts]

get_daily_summary(city, target_date) ==
    LET hourly_counts ==
            [hour \in 0..(HoursOfDay - 1) |->
                LET result == get_bus_count_by_hour_day(city, target_date, hour) IN
                IF "error" \notin DOMAIN result THEN result.total_buses ELSE 0]
    IN  [city |-> city, date |-> target_date,
         total_buses |-> SumHours(hourly_counts, 0),
         hourly_breakdown |-> hourly_counts]

\* every hour, the empty ones too (a faulty variant)
RECURSIVE NonZeroHours_All(_, _)
NonZeroHours_All(hourly_data, hour) ==
    IF hour \notin DOMAIN hourly_data THEN <<>>
    ELSE <<<<hour, hourly_data[hour]>>>> \o NonZeroHours_All(hourly_data, hour + 1)

\* {hour: count for hour, count in hourly_data.items() if count > 0}, from
\* hour on
RECURSIVE NonZeroHours(_, _)
NonZeroHours(hourly_data, hour) ==
    IF hour \notin DOMAIN hourly_data THEN <<>>
    ELSE (IF hourly_data[hour] > 0 THEN <<<<hour, hourly_data[hour]>>>> ELSE <<>>)
         \o NonZeroHours(hourly_data, hour + 1)

\* the first three hours of the day that have buses (a faulty variant)
SortedHours_ByHour(items) == items

\* sorted(items, key=lambda x: x[1], reverse=True): Python's sort is stable,
\* and keeps equal counts in the order they came in
RECURSIVE SortedHours(_)
SortedHours(items) ==
    IF items = <<>> THEN <<>>
    ELSE LET first == CHOOSE i \in 1..Len(items) :
                        /\ \A j \in 1..Len(items) : items[i][2] >= items[j][2]
                        /\ \A j \in 1..(i - 1) : items[j][2] < items[i][2]
         IN  <<items[first]>>
             \o SortedHours(SubSeq(items, 1, first - 1)
                             \o SubSeq(items, first + 1, Len(items)))

TopHours(sorted_hours) ==
    SubSeq(sorted_hours, 1, IF Len(sorted_hours) < TopN THEN Len(sorted_hours) ELSE TopN)

DigitChar(n) == CHOOSE c \in DigitChars : DigitValue(c) = n

\* f"{hour:02d}:00"
HourFormatted(hour) ==
    Str(<<DigitChar(hour \div 10), DigitChar(hour % 10), ":", "0", "0">>)

Max(a, b) == IF a >= b THEN a ELSE b

\* the record of a stop keeps the count of the last hour only (a faulty variant)
AddStop_LastHourOnly(stops_data, hour, stop) ==
    LET hour_info == [hour |-> hour, hour_formatted |-> HourFormatted(hour),
                      bus_count |-> stop.bus_count]
        fresh == [stop_id |-> stop.stop_id, stop_lat |-> stop.stop_lat,
                  stop_lon |-> stop.stop_lon, peak_hours |-> <<hour_info>>,
                  total_bus_count |-> stop.bus_count,
                  max_hourly_count |-> stop.bus_count]
    IN  IF \E i \in 1..Len(stops_data) : stops_data[i].stop_id = stop.stop_id
        THEN [i \in 1..Len(stops_data) |->
                IF stops_data[i].stop_id = stop.stop_id THEN fresh ELSE stops_data[i]]
        ELSE Append(stops_data, fresh)

\* the body of the loop over hour_result["stops"]
AddStop(stops_data, hour, stop) ==
    LET hour_info == [hour |-> hour, hour_formatted |-> HourFormatted(hour),
                      bus_count |-> stop.bus_count]
        fresh == [stop_id |-> stop.stop_id, stop_lat |-> stop.stop_lat,
                  stop_lon |-> stop.stop_lon, peak_hours |-> <<>>,
                  total_bus_count |-> 0, max_hourly_count |-> 0]
        known == IF \E i \in 1..Len(stops_data) : stops_data[i].stop_id = stop.stop_id
                 THEN stops_data ELSE Append(stops_data, fresh)
    IN  [i \in 1..Len(known) |->
            IF known[i].stop_id # stop.stop_id THEN known[i]
            ELSE [known[i] EXCEPT
                    !.peak_hours = Append(@, hour_info),
                    !.total_bus_count = @ + stop.bus_count,
                    !.max_hourly_count = Max(@, stop.bus_count)]]

RECURSIVE AddHour(_, _, _, _)
AddHour(stops_data, hour, stops, i) ==
    IF i > Len(stops) THEN stops_data
    ELSE AddHour(AddStop(stops_data, hour, stops[i]), hour, stops, i + 1)

\* the loop over top_3_peak_hours
RECURSIVE StopsData(_, _, _, _, _)
StopsData(stops_data, city, target_date, top, k) ==
    IF k > Len(top) THEN stops_data
    ELSE LET hour_result == get_bus_count_by_hour_day(city, target_date, top[k][1]) IN
         StopsData(IF "error" \notin DOMAIN hour_result
                   THEN AddHour(stops_data, top[k][1], hour_result.stops, 1)
                   ELSE stops_data,
                   city, target_date, top, k + 1)

\* the list as the loops filled it, without the sort (a faulty variant)
SortByTotal_Unsorted(stops_list) == stops_list

\* stops_list.sort(key=lambda x: x["total_bus_count"], reverse=True)
RECURSIVE SortByTotal(_)
SortByTotal(stops_list) ==
    IF stops_list = <<>> THEN <<>>
    ELSE LET first == CHOOSE i \in 1..Len(stops_list) :
                        /\ \A j \in 1..Len(stops_list) :
                              stops_list[i].total_bus_count >= stops_list[j].total_bus_count
                        /\ \A j \in 1..(i - 1) :
                              stops_list[j].total_bus_count < stops_list[i].total_bus_count
         IN  <<stops_list[first]>>
             \o SortByTotal(SubSeq(stops_list, 1, first - 1)
                             \o SubSeq(stops_list, first + 1, Len(stops_list)))

\* _fetch_bus_peak_hours, from the summary of the day on
PeakHoursResult(city, target_date, top_3_peak_hours) ==
    IF top_3_peak_hours = <<>>
    THEN [status |-> "error", error_message |-> "No bus data found"]
    ELSE [status |-> "success", city |-> city, date |-> target_date,
          stops |-> SortByTotal(StopsData(<<>>, city, target_date, top_3_peak_hours, 1))]

fetch_bus_peak_hours(city, target_date) ==
    LET result == get_daily_summary(city, target_date) IN
    PeakHoursResult(city, target_date,
                    TopHours(SortedHours(NonZeroHours(result.hourly_breakdown, 0))))

FetchBusPeakHours(city, target_date) ==
    /\ \E result \in {get_daily_summary(city, target_date)} :
       \E top_3_peak_hours \in
            {TopHours(SortedHours(NonZeroHours(result.hourly_breakdown, 0)))} :
          peak' = [city |-> city,
                   target_date |-> target_date,
                   hourly_breakdown |-> result.hourly_breakdown,
                   top_3_peak_hours |-> top_3_peak_hours,
                   ret |-> PeakHoursResult(city, target_date, top_3_peak_hours)]
    /\ UNCHANGED <<cacheVars, concVars, gtfsVars, stops_df, trips_df,
                   stop_times_df, sort_ties, parsed, arrivals, chunked, gtfs_folder,
                   loaded, stop_times_txt, found, tool>>

\* The feeds tried for the peak hours: arrivals in five hours of the day,
\* and one without a time.
PeakStopTimeRows ==
    { StopTime("T1", "A", At("0", "6", "0", "0"), 1),
      StopTime("T1", "B", At("0", "7", "0", "0"), 2),
      StopTime("T1", "A", At("0", "8", "0", "0"), 3),
      StopTime("T1", "B", At("0", "8", "3", "0"), 4),
      StopTime("T2", "A", At("0", "8", "3", "0"), 1),
      StopTime("T1", "A", At("0", "9", "0", "0"), 5),
      StopTime("T2", "B", At("0", "9", "0", "0"), 2),
      StopTime("T1", "B", At("1", "0", "0", "0"), 6),
      StopTime("T1", "A", NaN, 7) }

PeakCities == {"porto", "paris"}

PeakInit ==
    /\ stops_df = StopRows
    /\ trips_df = TripRows
    /\ stop_times_df \in SUBSET PeakStopTimeRows
    /\ calendar_df \in SUBSET FeedCalendarRows
    /\ calendar_dates_df = {}
    /\ resolved = NoQuery
    /\ sort_ties \in TieOrders
    /\ parsed = NoParse
    /\ arrivals = NoArrivals
    /\ peak = NoPeak
    /\ chunked = NoRead
    /\ gtfs_folder = WholeFolder
    /\ loaded = LoadData(gtfs_folder)
    /\ stop_times_txt = stop_times_df
    /\ found = NoStops
    /\ tool = NoTool

(***************************************************************************)
(* GTFSAnalyzer._load_stop_times_chunked on a table whose rows keep their  *)
(* order: a table is the sequence of its rows, the memory-resident         *)
(* DataFrame and the file stop_times.txt alike.                            *)
(***************************************************************************)
MaxRows == 4
MaxChunk == 3

\* table[table["stop_id"].isin(stop_ids)]: the rows that match, in order
IsIn(table, stop_ids) == SelectSeq(table, LAMBDA r : r.stop_id \in stop_ids)

\* the windows that are full, without the rows after the last of them (a
\* faulty variant)
RECURSIVE ReadCsvChunks_FullOnly(_, _)
ReadCsvChunks_FullOnly(table, chunk_size) ==
    IF Len(table) < chunk_size THEN <<>>
    ELSE <<SubSeq(table, 1, chunk_size)>>
         \o ReadCsvChunks_FullOnly(SubSeq(table, chunk_size + 1, Len(table)), chunk_size)

\* pd.read_csv(path, chunksize=chunk_size): the rows of the file in windows
\* of chunk_size rows, the last one shorter when the rows do not divide
RECURSIVE ReadCsvChunks(_, _)
ReadCsvChunks(table, chunk_size) ==
    IF table = <<>> THEN <<>>
    ELSE IF Len(table) <= chunk_size THEN <<table>>
    ELSE <<SubSeq(table, 1, chunk_size)>>
         \o ReadCsvChunks(SubSeq(table, chunk_size + 1, Len(table)), chunk_size)

\* the loop that appends the filtered windows that are not empty
RECURSIVE FilteredChunks(_, _, _)
FilteredChunks(windows, stop_ids, i) ==
    IF i > Len(windows) THEN <<>>
    ELSE LET filtered_chunk == IsIn(windows[i], stop_ids) IN
         (IF filtered_chunk # <<>> THEN <<filtered_chunk>> ELSE <<>>)
         \o FilteredChunks(windows, stop_ids, i + 1)

\* pd.concat(chunks, ignore_index=True)
RECURSIVE Concat(_)
Concat(chunks) == IF chunks = <<>> THEN <<>> ELSE Head(chunks) \o Concat(Tail(chunks))

\* the path taken when stop_times_df is None; an empty DataFrame is the
\* table of no rows
ChunkedStopTimes(file, stop_ids, chunk_size) ==
    LET chunks == FilteredChunks(ReadCsvChunks(file, chunk_size), stop_ids, 1) IN
    IF chunks # <<>> THEN Concat(chunks) ELSE <<>>

\* The tables, stop ids and window sizes tried.
ChunkRows ==
    { StopTime("T1", "A", At("0", "8", "0", "0"), 1),
      StopTime("T1", "B", At("0", "8", "3", "0"), 2),
      StopTime("T2", "C", At("0", "9", "0", "0"), 1) }

RECURSIVE TablesOf(_)
TablesOf(n) ==
    IF n = 0 THEN {<<>>}
    ELSE TablesOf(n - 1)
         \cup { Append(t, r) : t \in { x \in TablesOf(n - 1) : Len(x) = n - 1 },
                               r \in ChunkRows }

\* the call on the table, stop ids and window size at hand, on a store
\* that holds the table and on one that has to read the file
LoadStopTimesChunked ==
    /\ ~chunked.read
    /\ chunked' = [chunked EXCEPT
                    !.read = TRUE,
                    !.resident = IsIn(chunked.table, chunked.stop_ids),
                    !.windowed = ChunkedStopTimes(chunked.table, chunked.stop_ids,
                                                  chunked.chunk_size)]
    /\ UNCHANGED <<cacheVars, concVars, gtfsVars, stops_df, trips_df,
                   stop_times_df, sort_ties, parsed, arrivals, peak, gtfs_folder,
                   loaded, stop_times_txt, found, tool>>

ChunkInit ==
    /\ stops_df = {}
    /\ trips_df = {}
    /\ stop_times_df = {}
    /\ sort_ties = <<>>
    /\ parsed = NoParse
    /\ arrivals = NoArrivals
    /\ peak = NoPeak
    /\ gtfs_folder = WholeFolder
    /\ loaded = LoadData(gtfs_folder)
    /\ stop_times_txt = stop_times_df
    /\ found = NoStops
    /\ tool = NoTool
    /\ chunked \in { [NoRead EXCEPT !.table = table, !.stop_ids = stop_ids,
                                     !.chunk_size = chunk_size] :
                        table \in TablesOf(MaxRows),
                        stop_ids \in SUBSET {"A", "B", "C"},
                        chunk_size \in 1..MaxChunk }

(***************************************************************************)
(* The analyzer on feed directories that lack files: GTFSAnalyzer() reads  *)
(* the directory, then get_city_stops and get_bus_count_by_hour_day work   *)
(* on the tables that were read.                                           *)
(***************************************************************************)
\* stop_times.txt with arrivals that do not parse: an empty cell, a word,
\* a time of two fields
LoadStopTimeRows ==
    { StopTime("T1", "A", At("0", "8", "0", "0"), 1),
      StopTime("T2", "A", NaN, 2),
      StopTime("T1", "B", Str(<<"b", "a", "d">>), 3),
      StopTime("T2", "B", Str(<<"0", "8", ":", "0", "0">>), 4),
      StopTime("T1", "A", At("0", "0", "3", "0"), 5),
      StopTime("T2", "C", NaN, 6) }

LoadCities == {"Porto", "porto", "LISBON", "paris", "berlin"}

Folders ==
    [readable : SUBSET { FeedFiles[i] : i \in 1..Len(FeedFiles) }, fits : BOOLEAN]

\* GTFSAnalyzer(): each table is the rows of its file when it was read
LoadInit ==
    /\ gtfs_folder \in Folders
    /\ loaded = LoadData(gtfs_folder)
    /\ stops_df = IF "stops_df" \in loaded THEN StopRows ELSE {}
    /\ trips_df = IF "trips_df" \in loaded THEN TripRows ELSE {}
    /\ \E rows \in SUBSET FeedCalendarDatesRows :
          calendar_dates_df = IF "calendar_dates_df" \in loaded THEN rows ELSE {}
    /\ calendar_df = IF "calendar_df" \in loaded THEN FeedCalendarRows ELSE {}
    /\ stop_times_txt = LoadStopTimeRows
    /\ stop_times_df = IF "stop_times_df" \in loaded THEN stop_times_txt ELSE {}
    /\ resolved = NoQuery
    /\ sort_ties = <<"A", "B", "C", "D">>
    /\ parsed = NoParse
    /\ arrivals = NoArrivals
    /\ peak = NoPeak
    /\ chunked = NoRead
    /\ found = NoStops
    /\ tool = NoTool

GetCityStops(city) ==
    /\ found' = [city |-> city, ret |-> get_city_stops(city), asked |-> TRUE]
    /\ UNCHANGED <<cacheVars, concVars, gtfsVars, stops_df, trips_df,
                   stop_times_df, sort_ties, parsed, arrivals, peak, chunked,
                   gtfs_folder, loaded, stop_times_txt, tool>>

(***************************************************************************)
(* The tools get_bus_peak_hours, get_bus_stops_by_hour and clear_bus_cache *)
(* on the cache directory of api_cache.  A date argument is a str, the     *)
(* sequence of its characters, or None; a city argument is a str, and ""   *)
(* stands for the city left out (None and "" are both false in a test).    *)
(* A result is the Python dict that the cache stores.                      *)
(***************************************************************************)
NoDate == <<"none">>
Truthy(date) == date[1] = "str" /\ date[2] # <<>>

\* str.split(sep)
RECURSIVE SplitOn(_, _)
SplitOn(chars, sep) ==
    IF \A i \in 1..Len(chars) : chars[i] # sep
    THEN <<chars>>
    ELSE LET i == CHOOSE j \in 1..Len(chars) :
                    chars[j] = sep /\ \A k \in 1..(j - 1) : chars[k] # sep
         IN  <<SubSeq(chars, 1, i - 1)>> \o SplitOn(SubSeq(chars, i + 1, Len(chars)), sep)

IsDigits(field, shortest, longest) ==
    Len(field) \in shortest..longest /\ \A i \in 1..Len(field) : field[i] \in DigitChars

\* datetime.strptime(date, "%Y-%m-%d").strftime("%Y%m%d") on a str: %Y
\* takes four digits, %m and %d one or two; a ValueError otherwise and for
\* a day the calendar does not have
strptime(date) ==
    LET fields == SplitOn(date[2], "-") IN
    IF \/ Len(fields) # 3
       \/ \E i \in 1..Len(fields) :
             i <= 3 /\ ~IsDigits(fields[i], IF i = 1 THEN 4 ELSE 1, IF i = 1 THEN 4 ELSE 2)
    THEN [ok |-> FALSE, target_date |-> 0]
    ELSE LET n == DigitsValue(fields[1]) * 10000 + DigitsValue(fields[2]) * 100
                    + DigitsValue(fields[3])
         IN  IF IsDate(n) THEN [ok |-> TRUE, target_date |-> n]
             ELSE [ok |-> FALSE, target_date |-> 0]

\* datetime.now().strftime("%Y%m%d"): the date of a day of the cache
FirstDay == 20240301

RECURSIVE DateOf(_)
DateOf(day) == IF day <= 0 THEN FirstDay ELSE NextDay(DateOf(day - 1))

\* cache_key = f"bus_peak_hours_{city}_{target_date}"
BusPeakKey(city, target_date) ==
    "bus_peak_hours_" \o city \o "_" \o ToString(target_date)

\* cache_key = f"bus_stops_{city}_{target_date}_{hour}"
BusStopsKey(city, target_date, hour) ==
    "bus_stops_" \o city \o "_" \o ToString(target_date) \o "_" \o ToString(hour)

\* The results as Python dicts.
PyNum(n) == PyInt(ToString(n))

ErrorResult(error_message) ==
    PyDict(<< <<PyStr("status"), PyStr("error")>>,
              <<PyStr("error_message"), PyStr(error_message)>> >>)

\* result.to_dict("records")
PyOfStop(stop) ==
    PyDict(<< <<PyStr("stop_id"), PyStr(stop.stop_id)>>,
              <<PyStr("bus_count"), PyNum(stop.bus_count)>>,
              <<PyStr("stop_lat"), PyNum(stop.stop_lat)>>,
              <<PyStr("stop_lon"), PyNum(stop.stop_lon)>> >>)

\* {"status": "success", **result}, or the error
PyOfStops(ret) ==
    IF ret.status = "error" THEN ErrorResult(ret.error_message)
    ELSE PyDict(<< <<PyStr("status"), PyStr("success")>>,
                   <<PyStr("city"), PyStr(ret.city)>>,
                   <<PyStr("date"), PyStr(ToString(ret.date))>>,
                   <<PyStr("hour"), PyNum(ret.hour)>>,
                   <<PyStr("total_buses"), PyNum(ret.total_buses)>>,
                   <<PyStr("total_stops"), PyNum(ret.total_stops)>>,
                   <<PyStr("stops"),
                     PyList([i \in 1..Len(ret.stops) |-> PyOfStop(ret.stops[i])])>> >>)

PyOfHourInfo(hour_info) ==
    PyDict(<< <<PyStr("hour"), PyNum(hour_info.hour)>>,
              <<PyStr("hour_formatted"), hour_info.hour_formatted>>,
              <<PyStr("bus_count"), PyNum(hour_info.bus_count)>> >>)

PyOfPeakStop(stop) ==
    PyDict(<< <<PyStr("stop_id"), PyStr(stop.stop_id)>>,
              <<PyStr("stop_lat"), PyNum(stop.stop_lat)>>,
              <<PyStr("stop_lon"), PyNum(stop.stop_lon)>>,
              <<PyStr("peak_hours"),
                PyList([i \in 1..Len(stop.peak_hours) |->
                            PyOfHourInfo(stop.peak_hours[i])])>>,
              <<PyStr("total_bus_count"), PyNum(stop.total_bus_count)>>,
              <<PyStr("max_hourly_count"), PyNum(stop.max_hourly_count)>> >>)

PyOfPeak(ret) ==
    IF ret.status = "error" THEN ErrorResult(ret.error_message)
    ELSE PyDict(<< <<PyStr("status"), PyStr("success")>>,
                   <<PyStr("city"), PyStr(ret.city)>>,
                   <<PyStr("date"), PyStr(ToString(ret.date))>>,
                   <<PyStr("stops"),
                     PyList([i \in 1..Len(ret.stops) |-> PyOfPeakStop(ret.stops[i])])>> >>)

\* What a call does: the value it returns or the exception it raises, the
\* cache directory it leaves, and whether it went to the cache and to the
\* fetch function.
Returned(st, ret) ==
    [ret |-> ret, exc |-> "none", store |-> st, key |-> "", cached |-> FALSE,
     fetched |-> FALSE]

Raised(st, exc) ==
    [ret |-> PyNone, exc |-> exc, store |-> st, key |-> "", cached |-> FALSE,
     fetched |-> FALSE]

\* return get_cached_or_fetch(cache_key, fetch_function, ...)
Cached(st, cache_key, fresh, day, io) ==
    LET o == FetchOutcome(st[cache_key], fresh, day, io) IN
    [ret |-> o.ret, exc |-> o.exc, store |-> [st EXCEPT ![cache_key] = o.file],
     key |-> cache_key, cached |-> TRUE, fetched |-> o.fetched]

get_bus_peak_hours(st, day, city, date, io) ==
    IF Truthy(date) /\ ~strptime(date).ok
    THEN Returned(st, ErrorResult("Invalid date format"))
    ELSE LET target_date == IF Truthy(date) THEN strptime(date).target_date
                            ELSE DateOf(day)
         IN  Cached(st, BusPeakKey(Lower(city), target_date),
                    PyOfPeak(fetch_bus_peak_hours(Lower(city), target_date)), day, io)

get_bus_stops_by_hour(st, day, city, date, hour, io) ==
    IF date[1] # "str" THEN Raised(st, "TypeError")     \* strptime(None, ...)
    ELSE IF ~strptime(date).ok
    THEN Returned(st, ErrorResult("Invalid date format"))
    ELSE IF ~(0 <= hour /\ hour <= 23)
    THEN Returned(st, ErrorResult("Hour must be between 0 and 23"))
    ELSE Cached(st, BusStopsKey(Lower(city), strptime(date).target_date, hour),
                PyOfStops(fetch_bus_stops_by_hour(Lower(city),
                                                  strptime(date).target_date, hour)),
                day, io)

SuccessMessage(message) ==
    PyDict(<< <<PyStr("status"), PyStr("success")>>, <<PyStr("message"), PyStr(message)>> >>)

\* the entries of the hours of the city and date removed as well (a faulty
\* variant)
clear_bus_cache_WithHours(st, city, date) ==
    IF city # "" /\ Truthy(date)
    THEN IF strptime(date).ok
         THEN LET target_date == strptime(date).target_date IN
              Returned([k \in DOMAIN st |->
                          IF \/ k = BusPeakKey(Lower(city), target_date)
                             \/ \E h \in 0..23 :
                                   k = BusStopsKey(Lower(city), target_date, h)
                          THEN NoFile ELSE st[k]],
                       SuccessMessage("Bus cache cleared"))
         ELSE Returned(st, ErrorResult("Invalid date format"))
    ELSE Returned(st, SuccessMessage("Bus cache clearing (partial implementation)"))

clear_bus_cache(st, city, date) ==
    IF city # "" /\ Truthy(date)
    THEN IF strptime(date).ok
         THEN LET cache_key == BusPeakKey(Lower(city), strptime(date).target_date) IN
              [Returned([k \in DOMAIN st |-> IF k = cache_key THEN NoFile ELSE st[k]],
                        SuccessMessage("Bus cache cleared"))
                  EXCEPT !.key = cache_key]
         ELSE Returned(st, ErrorResult("Invalid date format"))
    ELSE IF city # ""
    THEN Returned(st, SuccessMessage("Bus cache clearing for city (partial implementation)"))
    ELSE Returned(st, SuccessMessage("Bus cache clearing (partial implementation)"))

\* The calls tried: every date with hour 8 and a directory that can be
\* written, the first date also with hour 24 and with a directory that
\* cannot.
IsoDate == Str(<<"2", "0", "2", "4", "-", "0", "3", "-", "0", "1">>)
ToolDates ==
    { IsoDate,
      Str(<<"2", "0", "2", "4", "-", "3", "-", "1">>),
      Str(<<"0", "1", "/", "0", "3", "/", "2", "0", "2", "4">>),
      Str(<<>>),
      NoDate }
ToolCities == {"Porto", "paris"}
ToolPeakCalls == (ToolDates \X {"ok"}) \cup {<<IsoDate, "open_fails">>}
ToolStopCalls ==
    (ToolDates \X {8} \X {"ok"}) \cup {<<IsoDate, 24, "ok">>, <<IsoDate, 8, "open_fails">>}

BusKeys ==
    { BusPeakKey(Lower(city), FirstDay) : city \in ToolCities }
        \cup { BusStopsKey(Lower(city), FirstDay, 8) : city \in ToolCities }

\* Files that the tools did not write today: JSON that is not an object
\* and an entry of the day before.
ToolFiles == {Text(<<"array", <<>> >>), EntryFile(ErrorResult("No buses found"), 0 - 1)}

MaxForeign == 1

\* three arrivals in hour 8 at two stops of Porto
ToolStopTimeRows ==
    { StopTime("T1", "A", At("0", "8", "0", "0"), 1),
      StopTime("T1", "B", At("0", "8", "3", "0"), 2),
      StopTime("T2", "A", At("0", "8", "3", "0"), 1) }

ToolsInit ==
    /\ store = [k \in BusKeys |-> NoFile]
    /\ today = 0
    /\ hist = [k \in BusKeys |-> NoHist]
    /\ last = NoCall
    /\ gtfs_folder = WholeFolder
    /\ loaded = LoadData(gtfs_folder)
    /\ stops_df = StopRows
    /\ trips_df = TripRows
    /\ calendar_dates_df = {}
    /\ calendar_df = FeedCalendarRows
    /\ stop_times_txt = ToolStopTimeRows
    /\ stop_times_df = stop_times_txt
    /\ resolved = NoQuery
    /\ sort_ties = <<"A", "B", "C", "D">>
    /\ parsed = NoParse
    /\ arrivals = NoArrivals
    /\ peak = NoPeak
    /\ chunked = NoRead
    /\ found = NoStops
    /\ tool = NoTool

analyzerVars ==
    <<stops_df, trips_df, stop_times_df, sort_ties, parsed, arrivals, peak,
      chunked, gtfs_folder, loaded, stop_times_txt, found>>

\* The call o of a tool, recorded.
Called(op, city, date, hour, io, o) ==
    /\ store' = o.store
    /\ hist' = IF o.fetched
               THEN [hist EXCEPT ![o.key] = Attempt(o.ret, io, NoFile, today)]
               ELSE IF op = "clear_bus_cache" /\ o.key # ""
               THEN [hist EXCEPT ![o.key] = NoHist]
               ELSE hist
    /\ tool' = [op |-> op, city |-> city, date |-> date, hour |-> hour, io |-> io,
                key |-> o.key,
                pre |-> IF o.key # "" THEN store[o.key] ELSE NoFile,
                memo |-> IF o.key # "" THEN hist[o.key] ELSE NoHist,
                ret |-> o.ret, exc |-> o.exc, cached |-> o.cached,
                fetched |-> o.fetched]
    /\ UNCHANGED <<today, last, concVars, gtfsVars, analyzerVars>>

GetBusPeakHours(city, date, io) ==
    \E o \in {get_bus_peak_hours(store, today, city, date, io)} :
        Called("get_bus_peak_hours", city, date, 0, io, o)

GetBusStopsByHour(city, date, hour, io) ==
    \E o \in {get_bus_stops_by_hour(store, today, city, date, hour, io)} :
        Called("get_bus_stops_by_hour", city, date, hour, io, o)

ClearBusCache(city, date) ==
    \E o \in {clear_bus_cache(store, city, date)} :
        Called("clear_bus_cache", city, date, 0, "ok", o)

\* a file of the cache directory is replaced from outside the tools, while
\* fewer than MaxForeign files of the directory are of that kind
Damage(k, f) ==
    /\ Cardinality({j \in BusKeys : store[j] \in ToolFiles}) < MaxForeign
    /\ store' = [store EXCEPT ![k] = f]
    /\ hist' = [hist EXCEPT ![k] = NoHist]
    /\ tool' = NoTool
    /\ UNCHANGED <<today, last, concVars, gtfsVars, analyzerVars>>

(***************************************************************************)
(* Two callers on one key, with values whose text is longer than the       *)
(* buffer of the file object.  open(cache_path, "w") truncates the file    *)
(* and gives the caller a position of its own at 0; json.dump fills the    *)
(* buffer, which is written at the caller's position when it is full, and  *)
(* the rest is written when the with block closes the file.  A text is     *)
(* kept as its two writes: the head, up to and including the first         *)
(* element of the list, and the tail, from the second element to the end.  *)
(***************************************************************************)
TornKey == "k1"

\* The values: two lists of two elements whose texts have the same length.
TornValues ==
    { PyList(<<PyInt("1"), PyInt("1")>>), PyList(<<PyInt("2"), PyInt("2")>>) }

\* what fetch_function returns to a caller
FreshOf(p) ==
    IF p = "p1" THEN PyList(<<PyInt("1"), PyInt("1")>>)
    ELSE PyList(<<PyInt("2"), PyInt("2")>>)

Hole == <<"hole">>                       \* bytes never written, read as NUL
TextHead(value) == <<"head", value[2][1]>>
TextTail(value, day) == <<"tail", value[2][2], day>>
Blocks(bs) == <<"blocks", bs>>

\* write(2) of block b at position pos (counted in blocks) of the file
WriteAt(f, pos, b) ==
    Blocks([i \in 1..(IF Len(f[2]) > pos THEN Len(f[2]) ELSE pos + 1) |->
               IF i = pos + 1 THEN b
               ELSE IF i <= Len(f[2]) THEN f[2][i] ELSE Hole])

\* The file as open(cache_path, "r") and json.load find it: a head followed
\* by a tail is the text of an entry, whoever wrote each of them.
FileOf(f) ==
    IF f = NoFile THEN NoFile
    ELSE IF f[2] = <<>> THEN Empty
    ELSE IF Len(f[2]) = 2 /\ f[2][1][1] = "head" /\ f[2][2][1] = "tail"
    THEN EntryFile(PyList(<<f[2][1][2], f[2][2][2]>>), f[2][2][3])
    ELSE Garbage

TornStart(p, op, value) ==
    /\ pc[p] = "idle"
    /\ pc' = [pc EXCEPT ![p] = IF op = "set" THEN "set_open"
                               ELSE IF op = "delete" THEN "delete_unlink"
                               ELSE "get_exists"]
    /\ call' = [call EXCEPT ![p] = [op |-> op, key |-> TornKey, value |-> value,
                                    day |-> today]]
    /\ UNCHANGED <<cacheVars, handle, done, res, gtfsVars, feedVars>>

\* The end of get: get returns, and get_cached_or_fetch goes on to fetch
\* when get returned None.
AfterGet(p, ret, exc) ==
    IF call[p].op = "get_cached_or_fetch" /\ ret = PyNone /\ exc = "none"
    THEN /\ pc' = [pc EXCEPT ![p] = "fetch"]
         /\ UNCHANGED res
    ELSE /\ pc' = [pc EXCEPT ![p] = "idle"]
         /\ res' = [res EXCEPT ![p] = [ret |-> ret, exc |-> exc]]

TornExists(p) ==
    /\ pc[p] = "get_exists"
    /\ IF store[call[p].key] = NoFile
       THEN AfterGet(p, PyNone, "none")
       ELSE /\ pc' = [pc EXCEPT ![p] = "get_read"]
            /\ UNCHANGED res
    /\ UNCHANGED <<cacheVars, call, handle, done, gtfsVars, feedVars>>

TornRead(p) ==
    /\ pc[p] = "get_read"
    /\ \E o \in {GetOutcome(FileOf(store[call[p].key]), today)} :
          IF o.branch \in {"fresh", "raise"}
          THEN AfterGet(p, o.ret, o.exc)
          ELSE /\ pc' = [pc EXCEPT ![p] = "get_unlink"]
               /\ UNCHANGED res
    /\ UNCHANGED <<cacheVars, call, handle, done, gtfsVars, feedVars>>

TornUnlink(p) ==
    /\ pc[p] = "get_unlink"
    /\ store' = [store EXCEPT ![call[p].key] = NoFile]
    /\ handle' = Orphaned(call[p].key, "unlinked_by_get")
    /\ AfterGet(p, PyNone, "none")
    /\ UNCHANGED <<today, hist, last, call, done, gtfsVars, feedVars>>

\* fresh_data = fetch_function(*args, **kwargs)
TornFetch(p) ==
    /\ pc[p] = "fetch"
    /\ call' = [call EXCEPT ![p].value = FreshOf(p)]
    /\ pc' = [pc EXCEPT ![p] = "set_open"]
    /\ UNCHANGED <<cacheVars, handle, done, res, gtfsVars, feedVars>>

\* open(cache_path, "w")
TornOpen(p) ==
    /\ pc[p] = "set_open"
    /\ store' = [store EXCEPT ![call[p].key] = Blocks(<<>>)]
    /\ handle' = [handle EXCEPT ![p] = "linked"]
    /\ pc' = [pc EXCEPT ![p] = "set_flush"]
    /\ UNCHANGED <<today, hist, last, call, done, res, gtfsVars, feedVars>>

\* the buffer is full: the head is written at position 0
TornFlush(p) ==
    /\ pc[p] = "set_flush"
    /\ store' = IF handle[p] = "linked"
                THEN [store EXCEPT ![call[p].key] = WriteAt(@, 0, TextHead(call[p].value))]
                ELSE store
    /\ pc' = [pc EXCEPT ![p] = "set_close"]
    /\ UNCHANGED <<today, hist, last, call, handle, done, res, gtfsVars, feedVars>>

\* the with block ends: the tail is written at position 1; set returns
\* None, get_cached_or_fetch its fresh_data
TornClose(p) ==
    /\ pc[p] = "set_close"
    /\ store' = IF handle[p] = "linked"
                THEN [store EXCEPT ![call[p].key] =
                        WriteAt(@, 1, TextTail(call[p].value, call[p].day))]
                ELSE store
    /\ handle' = [handle EXCEPT ![p] = "none"]
    /\ pc' = [pc EXCEPT ![p] = "idle"]
    /\ res' = [res EXCEPT ![p] = IF call[p].op = "get_cached_or_fetch"
                                 THEN [ret |-> call[p].value, exc |-> "none"]
                                 ELSE NoResult]
    /\ UNCHANGED <<today, hist, last, call, done, gtfsVars, feedVars>>

TornDelete(p) ==
    /\ pc[p] = "delete_unlink"
    /\ store' = [store EXCEPT ![call[p].key] = NoFile]
    /\ handle' = Orphaned(call[p].key, "unlinked_by_delete")
    /\ pc' = [pc EXCEPT ![p] = "idle"]
    /\ res' = [res EXCEPT ![p] = NoResult]
    /\ UNCHANGED <<today, hist, last, call, done, gtfsVars, feedVars>>

(***************************************************************************)
(* Specifications                                                          *)
(***************************************************************************)
Init == CacheInit /\ ConcInit /\ GtfsIdle /\ FeedIdle


\* DailyCache, called directly
Next ==
    \/ \E k \in Keys : Get(k)
    \/ \E k \in Keys, v \in PyValues, io \in IoOutcomes : Set(k, v, io)
    \/ \E k \in Keys : Delete(k)
    \/ Clear
    \/ \E order \in GlobOrders(store) : CleanupOld(order)
    \/ DayAdvance
    \/ \E k \in Keys, f \in CorruptFiles : Corrupt(k, f)

Spec == Init /\ [][Next]_vars

\* The tools' use of the cache: get_cached_or_fetch, clear_bus_cache's
\* delete, clear_all_cache, cleanup_old_cache
NextFetch ==
    \/ \E k \in Keys, v \in PyValues, io \in IoOutcomes : GetCachedOrFetch(k, v, io)
    \/ \E k \in Keys : Delete(k)
    \/ Clear
    \/ \E order \in GlobOrders(store) : CleanupOld(order)
    \/ DayAdvance
    \/ \E k \in Keys, f \in CorruptFiles : Corrupt(k, f)

SpecFetch == Init /\ [][NextFetch]_vars

\* Two callers of get, set and delete
NextConc ==
    \/ \E p \in Procs, k \in Keys : StartGet(p, k)
    \/ \E p \in Procs : GetExists(p)
    \/ \E p \in Procs : GetRead(p)
    \/ \E p \in Procs : GetUnlink(p)
    \/ \E p \in Procs, k \in Keys, v \in ConcValues : StartSet(p, k, v)
    \/ \E p \in Procs : SetOpen(p)
    \/ \E p \in Procs : SetWrite(p)
    \/ \E p \in Procs, k \in Keys : StartDelete(p, k)
    \/ \E p \in Procs : DeleteUnlink(p)
    \/ Midnight

SpecConc == Init /\ [][NextConc]_vars

\* The service-day resolution, on every feed of CalendarRows and
\* CalendarDatesRows
NextGtfs ==
    \E d \in QueryDates, ids \in SUBSET Services : Resolve(d, ids)

InitGtfs == CacheInit /\ ConcInit /\ GtfsInit /\ FeedIdle

SpecGtfs == InitGtfs /\ [][NextGtfs]_vars

\* parse_gtfs_time_and_date on every text and date of WellFormedTimes,
\* MalformedTimes and ServiceDates
NextTime ==
    \E t \in WellFormedTimes \cup MalformedTimes, d \in ServiceDates : ParseTime(t, d)

SpecTime == Init /\ [][NextTime]_vars

\* get_bus_stops_by_hour's fetch, for every city, date and hour tried
NextStops ==
    \E city \in Cities, d \in FeedDates, h \in FeedHours : FetchBusStopsByHour(city, d, h)

InitStops == CacheInit /\ ConcInit /\ FeedInit

SpecStops == InitStops /\ [][NextStops]_vars

\* get_bus_peak_hours' fetch, for every city and date tried
NextPeak ==
    \E city \in PeakCities, d \in FeedDates : FetchBusPeakHours(city, d)

InitPeak == CacheInit /\ ConcInit /\ PeakInit

SpecPeak == InitPeak /\ [][NextPeak]_vars

\* _load_stop_times_chunked on every table of up to MaxRows rows, read whole
\* and in windows of up to MaxChunk rows
NextChunk == LoadStopTimesChunked

InitChunk == CacheInit /\ ConcInit /\ GtfsIdle /\ ChunkInit

SpecChunk == InitChunk /\ [][NextChunk]_vars

\* The analyzer on every feed directory of Folders
NextLoad ==
    \/ \E city \in LoadCities : GetCityStops(city)
    \/ \E city \in Cities, d \in FeedDates, h \in FeedHours : FetchBusStopsByHour(city, d, h)

InitLoad == CacheInit /\ ConcInit /\ LoadInit

SpecLoad == InitLoad /\ [][NextLoad]_vars

\* The bus tools on one cache directory and one feed
NextTools ==
    \/ \E city \in ToolCities, c \in ToolPeakCalls : GetBusPeakHours(city, c[1], c[2])
    \/ \E city \in ToolCities, c \in ToolStopCalls :
          GetBusStopsByHour(city, c[1], c[2], c[3])
    \/ \E city \in {"Porto", ""}, date \in ToolDates : ClearBusCache(city, date)
    \/ \E k \in BusKeys, f \in ToolFiles : Damage(k, f)

InitTools == ConcInit /\ ToolsInit

SpecTools == InitTools /\ [][NextTools]_vars

\* Two callers on one key, the writes of a long text one by one
NextTorn ==
    \/ \E p \in Procs, op \in {"get", "delete", "get_cached_or_fetch"} :
          TornStart(p, op, PyNone)
    \/ \E p \in Procs, value \in TornValues : TornStart(p, "set", value)
    \/ \E p \in Procs : TornExists(p)
    \/ \E p \in Procs : TornRead(p)
    \/ \E p \in Procs : TornUnlink(p)
    \/ \E p \in Procs : TornFetch(p)
    \/ \E p \in Procs : TornOpen(p)
    \/ \E p \in Procs : TornFlush(p)
    \/ \E p \in Procs : TornClose(p)
    \/ \E p \in Procs : TornDelete(p)

SpecTorn == Init /\ [][NextTorn]_vars

(***************************************************************************)
(* Properties of the cache                                                 *)
(***************************************************************************)
\* A value json writes and reads back unchanged: None, ints, strs, lists of
\* such values and str-keyed dicts of such values.
RECURSIVE IsJsonNative(_)
IsJsonNative(v) ==
    CASE v[1] \in {"none", "int", "str"} -> TRUE
      [] v[1] = "list" -> \A i \in 1..Len(v[2]) : IsJsonNative(v[2][i])
      [] v[1] = "dict" ->
            \A i \in 1..Len(v[2]) : v[2][i][1][1] = "str" /\ IsJsonNative(v[2][i][2])
      [] OTHER -> FALSE

\* The history entry of the key of the last call.
LastHist == hist[last.key]
Attempted(h) == h # NoHist
Value(h) == h[2]
Written(h) == h[3]
Replaced(h) == h[4]

C2_Expiry ==
    /\ (last.op = "get" /\ IsObject(last.pre) /\ StoredDate(last.pre) # TodayStr(today))
          => (last.ret = PyNone /\ last.exc = "none" /\ store[last.key] = NoFile)
    /\ (last.op = "get" /\ last.ret # PyNone)
          => (IsObject(last.pre) /\ StoredDate(last.pre) = TodayStr(today))

C2_Witness ==
    /\ last.op = "get"
    /\ today = 1
    /\ last.pre = EntryFile(PyInt("1"), 0)
    /\ last.ret = PyNone
    /\ store[last.key] = NoFile

\* C4 as stated: after sets on one key within a day and no delete or clear
\* since the last of them, get returns the (json image of the) value of the
\* most recent set.
C4_LastWriteWins ==
    (last.op = "get" /\ Attempted(LastHist))
        => (last.exc = "none" /\ last.ret = JsonLoad(JsonDump(Value(LastHist))))

\* C4 amended: when the write of the most recent set succeeded, get returns
\* the json image of that set's value, whatever the key held before.
C4_LastSuccessfulWriteWins ==
    (last.op = "get" /\ Attempted(LastHist) /\ Written(LastHist))
        => (last.exc = "none" /\ last.ret = JsonLoad(JsonDump(Value(LastHist))))

C4_Witness ==
    /\ last.op = "get"
    /\ Attempted(LastHist) /\ Written(LastHist) /\ Replaced(LastHist)
    /\ last.pre = EntryFile(PyInt("1"), today)
    /\ last.ret = PyInt("1")

\* A corrupt or unreadable file: not JSON, not UTF-8, not readable, or JSON
\* that is not an object.
IsCorrupt(f) ==
    f \in {Garbage, Empty, BadBytes, Unreadable} \/ (IsText(f) /\ ~IsObject(f))

\* C5: a get that finds a corrupt or unreadable file (not JSON, not UTF-8,
\* JSON that is not an object, not readable) raises nothing, returns None and
\* leaves no file for the key.
C5_CorruptIsAbsentAndRemoved ==
    (last.op = "get" /\ IsCorrupt(last.pre))
        => (last.exc = "none" /\ last.ret = PyNone /\ store[last.key] = NoFile)

\* A file that is corrupt or whose stored date is not the day's.
ShouldEvict(f, day) ==
    f # NoFile /\ (IsCorrupt(f) \/ StoredDate(f) # TodayStr(day))

\* C6: cleanup_old returns, removes exactly the files that are corrupt or
\* whose stored date is not today's, leaves the others as they were, and
\* returns the number of files it removed.
C6_EvictStale ==
    [][last'.op = "cleanup_old" =>
          /\ last'.exc = "none"
          /\ \A k \in Keys :
                store'[k] = IF ShouldEvict(store[k], today) THEN NoFile ELSE store[k]
          /\ last'.count = Cardinality({k \in Keys : ShouldEvict(store[k], today)})
      ]_vars

\* C7: get_cached_or_fetch on a key whose file is corrupt or unreadable, or
\* whose write fails, raises nothing, calls the fetch function and returns
\* its result.
C7_CacheErrorsAreMisses ==
    /\ (last.op = "get_cached_or_fetch" /\ IsCorrupt(last.pre))
          => (last.exc = "none" /\ last.fetched /\ last.ret = Value(LastHist))
    /\ (last.op = "get_cached_or_fetch" /\ last.fetched /\ ~Written(LastHist))
          => (last.exc = "none" /\ last.ret = Value(LastHist))

\* C8 as stated: once get_cached_or_fetch has fetched and returned a value
\* other than None for a key, a later call of the same day, with no delete,
\* clear or eviction of the key between, returns that value (up to its json
\* image) without calling the fetch function.
C8_Memoized ==
    (last.op = "get_cached_or_fetch" /\ Attempted(last.memo)
        /\ Value(last.memo) # PyNone)
        => (last.exc = "none" /\ ~last.fetched
            /\ last.ret = JsonLoad(JsonDump(Value(last.memo))))

\* C8 amended: the same, when the write of the earlier call succeeded.
C8_MemoizedWhenWritten ==
    (last.op = "get_cached_or_fetch" /\ Attempted(last.memo)
        /\ Written(last.memo) /\ Value(last.memo) # PyNone)
        => (last.exc = "none" /\ ~last.fetched
            /\ last.ret = JsonLoad(JsonDump(Value(last.memo))))

C8_Witness ==
    /\ last.op = "get_cached_or_fetch"
    /\ Attempted(last.memo) /\ Written(last.memo)
    /\ Value(last.memo) = PyDict(<< <<PyStr("a"), PyList(<<PyInt("1"), PyStr("b")>>)>> >>)
    /\ ~last.fetched
    /\ last.ret = Value(last.memo)

\* A caller between the first and the last file-system call of its operation.
Inside(p) == pc[p] \in {"get_read", "get_unlink", "set_write"}

NoOverlap ==
    \A p, q \in Procs :
        (p # q /\ call[p].key = call[q].key /\ Inside(p) /\ Inside(q))
            => (call[p].op = "get" /\ call[q].op = "get")

NoLostEntry ==
    \A k \in Keys :
        (done[k] /\ \A p \in Procs : pc[p] = "idle" \/ call[p].key # k)
            => (IsObject(store[k]) /\ StoredDate(store[k]) = TodayStr(today))

\* C3: the calls on one key are serialized: while a caller is inside set
\* (it has opened the file and has not yet written it) no other caller is
\* inside get or delete on the same key, and the reverse; and so once a set
\* has completed and no delete has unlinked the file during or after it,
\* the key holds an entry of today whenever no caller is at work on it.
C3_Serialized == NoOverlap /\ NoLostEntry

(***************************************************************************)
(* Properties of parse_gtfs_time_and_date                                  *)
(***************************************************************************)
Parsed == parsed # NoParse

\* The hour a well-formed text HH:MM:SS states: its first two characters.
StatedHour(time_str) ==
    10 * DigitValue(time_str[2][1]) + DigitValue(time_str[2][2])

\* C11: for a well-formed HH:MM:SS the result is (HH, service date) when
\* HH < 24 and (HH - 24, the day after the service date) when HH >= 24, and
\* the hour returned is within 0..23.
C11_Normalize ==
    (Parsed /\ parsed.time_str \in WellFormedTimes) =>
        LET hh == StatedHour(parsed.time_str) IN
        /\ hh < 24 => parsed.ret = <<hh, parsed.service_date_str>>
        /\ hh >= 24 =>
              /\ parsed.ret[1] = hh - 24
              /\ ToOrdinal(parsed.ret[2]) = ToOrdinal(parsed.service_date_str) + 1
        /\ parsed.ret[1] \in 0..23

\* C12: for a malformed time of day (wrong number of fields, a field that
\* is not a number, a value that is not a str) the result is hour 0 and the
\* service date as given.
C12_MalformedIsMidnight ==
    (Parsed /\ parsed.time_str \in MalformedTimes) =>
        parsed.ret = <<0, parsed.service_date_str>>

C12_Witness ==
    /\ Parsed
    /\ parsed.time_str = Str(<<"2", "5", ":", "0", "0", ":">>)
    /\ parsed.service_date_str = 20240229
    /\ parsed.ret = <<0, 20240229>>

(***************************************************************************)
(* Properties of get_bus_stops_by_hour                                     *)
(***************************************************************************)
Asked == arrivals # NoArrivals
Success == Asked /\ arrivals.ret.status = "success"

\* The service of a row's trip, and whether a service runs on a date.
ServiceOf(r) ==
    { t.service_id : t \in { x \in trips_df : x.trip_id = r.trip_id } }

RunsOn(service_id, d) ==
    LET exceptions ==
            { e \in calendar_dates_df : e.service_id = service_id /\ e.date = d }
    IN  /\ \A e \in exceptions : e.exception_type # REMOVED
        /\ \/ \E e \in exceptions : e.exception_type = ADDED
           \/ \E r \in calendar_df :
                /\ r.service_id = service_id
                /\ r[day_columns[Weekday(d) + 1]] = 1
                /\ r.start_date <= d /\ d <= r.end_date

\* The parent stations inside the bounds of a city.
InCityOf(city, stop_id) ==
    \E st \in stops_df :
        /\ st.stop_id = stop_id
        /\ st.location_type = 1
        /\ city \in DOMAIN city_boundaries
        /\ st.stop_lat >= city_boundaries[city].lat_min
        /\ st.stop_lat <= city_boundaries[city].lat_max
        /\ st.stop_lon >= city_boundaries[city].lon_min
        /\ st.stop_lon <= city_boundaries[city].lon_max

InCity(stop_id) == InCityOf(arrivals.city, stop_id)

\* The rows an answer has to count at a stop: those that normalize to the
\* hour and date asked for and whose trip's service runs on that date.
DueAt(city, d, h, stop_id) ==
    { r \in stop_times_df :
        /\ r.stop_id = stop_id
        /\ InCityOf(city, stop_id)
        /\ parse_gtfs_time_and_date(r.arrival_time, d) = <<h, d>>
        /\ \E sv \in ServiceOf(r) : RunsOn(sv, d) }

Due(stop_id) == DueAt(arrivals.city, arrivals.target_date, arrivals.hour, stop_id)

Listed(stop_id) ==
    { i \in 1..Len(arrivals.ret.stops) : arrivals.ret.stops[i].stop_id = stop_id }

AllStopIds == { st.stop_id : st \in stops_df }

\* The rows that arrive after midnight of the day before the date asked
\* for, in the hour asked for, on a trip whose service runs on that day
\* before.
AfterMidnight(stop_id) ==
    { r \in stop_times_df :
        /\ r.stop_id = stop_id
        /\ InCity(stop_id)
        /\ r.arrival_time \in WellFormedTimes
        /\ StatedHour(r.arrival_time) >= 24
        /\ StatedHour(r.arrival_time) - 24 = arrivals.hour
        /\ \E d \in FeedDates, sv \in ServiceOf(r) :
              ToOrdinal(d) + 1 = ToOrdinal(arrivals.target_date) /\ RunsOn(sv, d) }

\* C13: a row with HH >= 24 on a trip whose service runs on date d is
\* counted in hour HH - 24 of the day after d, and in no hour of d.
C13_AfterMidnightNextDay ==
    Asked =>
        /\ \A id \in AllStopIds :
              AfterMidnight(id) # {} =>
                  /\ Success
                  /\ \E i \in Listed(id) :
                        arrivals.ret.stops[i].bus_count >= Cardinality(AfterMidnight(id))
        /\ Success =>
              \A id \in AllStopIds :
                  \A r \in Due(id) :
                      r.arrival_time \in WellFormedTimes
                          => StatedHour(r.arrival_time) < 24

\* C14: a success lists each stop once with the number of rows due at it,
\* lists no stop without such rows, and totals the listed counts.
C14_CountsAreDueRows ==
    Success =>
        /\ \A id \in AllStopIds :
              /\ Cardinality(Listed(id)) = (IF Due(id) = {} THEN 0 ELSE 1)
              /\ \A i \in Listed(id) :
                    arrivals.ret.stops[i].bus_count = Cardinality(Due(id))
        /\ \A i \in 1..Len(arrivals.ret.stops) :
              arrivals.ret.stops[i].stop_id \in AllStopIds
        /\ arrivals.ret.total_buses = SumBusCount(arrivals.ret.stops)

C14_Witness ==
    /\ Success
    /\ arrivals.hour = 8
    /\ stop_times_df = StopTimeRows
    /\ Len(arrivals.ret.stops) = 2
    /\ arrivals.ret.stops[1].stop_id = "A" /\ arrivals.ret.stops[1].bus_count = 2
    /\ arrivals.ret.stops[2].stop_id = "B" /\ arrivals.ret.stops[2].bus_count = 1
    /\ arrivals.ret.total_buses = 3

\* C15: when no row is due at any stop for the city, date and hour asked
\* for, the answer is an error, not a success with no stops.
C15_NoBusesIsError ==
    (Asked /\ \A id \in AllStopIds : Due(id) = {})
        => arrivals.ret.status = "error"

\* C16: the stops of a success are in the order of their counts, largest
\* first, and stops of equal counts in the order of their stop ids.
C16_SortedByCountThenStopId ==
    Success =>
        \A i, j \in 1..Len(arrivals.ret.stops) :
            i < j =>
                \/ arrivals.ret.stops[i].bus_count > arrivals.ret.stops[j].bus_count
                \/ /\ arrivals.ret.stops[i].bus_count = arrivals.ret.stops[j].bus_count
                   /\ Position(StopIdsAscending, arrivals.ret.stops[i].stop_id)
                        < Position(StopIdsAscending, arrivals.ret.stops[j].stop_id)

(***************************************************************************)
(* Properties of the service-day resolution                                *)
(***************************************************************************)
Queried == resolved.target_date # 0

\* The services among those asked for that calendar_dates.txt lists on the
\* date asked for with the exception type t.
Excepted(t) ==
    { e.service_id : e \in
        { x \in calendar_dates_df :
            /\ x.date = resolved.target_date
            /\ x.service_id \in resolved.service_ids
            /\ x.exception_type = t } }

\* C9: the running services are (regular + added) - removed, so a service
\* with a REMOVED exception on the date does not run, whether or not it has
\* an ADDED exception on the date or is regular on it.
C9_RemoveWins ==
    Queried =>
        /\ resolved.running_services =
              (resolved.regular_services \cup Excepted(ADDED)) \ Excepted(REMOVED)
        /\ \A s \in Excepted(REMOVED) : s \notin resolved.running_services

C9_Witness ==
    /\ Queried
    /\ "S1" \in resolved.regular_services
    /\ "S1" \in Excepted(ADDED) \cap Excepted(REMOVED)
    /\ "S1" \notin resolved.running_services
    /\ "S2" \in resolved.running_services

\* The calendar: the day of the week of each date asked for, and the order
\* of dates as triples of year, month and day.
WeekdayOf(d) ==
    CASE d = 20240229 -> "thursday"
      [] d = 20240301 -> "friday"
      [] d = 20240303 -> "sunday"
      [] d = 20240304 -> "monday"

NotAfter(a, b) ==
    \/ Year(a) < Year(b)
    \/ Year(a) = Year(b) /\ Month(a) < Month(b)
    \/ Year(a) = Year(b) /\ Month(a) = Month(b) /\ DayOfMonth(a) <= DayOfMonth(b)

HasRule(s, d) ==
    \E r \in calendar_df :
        /\ r.service_id = s
        /\ r[WeekdayOf(d)] = 1
        /\ NotAfter(r.start_date, d)
        /\ NotAfter(d, r.end_date)

\* C10: a service asked for is regular on the date exactly when it has a
\* calendar rule whose flag of the date's day of the week is set and whose
\* range, both ends included, holds the date; and a service with no
\* exception on the date runs exactly when it is regular.
C10_RegularByRule ==
    Queried =>
        /\ \A s \in Services :
              s \in resolved.regular_services
                  <=> (s \in resolved.service_ids /\ HasRule(s, resolved.target_date))
        /\ \A s \in resolved.service_ids \ (Excepted(ADDED) \cup Excepted(REMOVED)) :
              s \in resolved.running_services <=> s \in resolved.regular_services

\* a rule's last day, and a rule's first day
C10_Witness ==
    /\ Queried
    /\ resolved.target_date = 20240301
    /\ calendar_df = { CalendarRow("S1", WorkingDays, 20240201, 20240301),
                       CalendarRow("S2", WorkingDays, 20240301, 20240331) }
    /\ calendar_dates_df = {}
    /\ resolved.running_services = {"S1", "S2"}
(***************************************************************************)
(* Properties of get_bus_peak_hours                                        *)
(***************************************************************************)
Peaked == peak # NoPeak
PeakSuccess == Peaked /\ peak.ret.status = "success"

\* The rows due at a stop in an hour of the day asked for, and in the hour
\* over all stops.
DueInHour(h, stop_id) ==
    Cardinality(DueAt(peak.city, peak.target_date, h, stop_id))

RECURSIVE DueFrom(_, _)
DueFrom(h, i) ==
    IF i > Len(StopIdsAscending) THEN 0
    ELSE DueInHour(h, StopIdsAscending[i]) + DueFrom(h, i + 1)

DueTotal(h) == DueFrom(h, 1)

\* C17: the breakdown of the day has the 24 hours 0..23, an hour whose
\* count fails stands at zero and every other hour at its own total.
C17_EveryHourCounted ==
    Peaked =>
        /\ DOMAIN peak.hourly_breakdown = 0..23
        /\ \A h \in DOMAIN peak.hourly_breakdown :
              /\ peak.hourly_breakdown[h] = DueTotal(h)
              /\ "error" \in DOMAIN get_bus_count_by_hour_day(peak.city, peak.target_date, h)
                    => peak.hourly_breakdown[h] = 0

C17_Witness ==
    /\ Peaked
    /\ peak.hourly_breakdown[6] = 1
    /\ "error" \in DOMAIN get_bus_count_by_hour_day(peak.city, peak.target_date, 7)
    /\ peak.hourly_breakdown[7] = 0
    /\ peak.hourly_breakdown[8] = 3
    /\ peak.hourly_breakdown[10] = 1

\* The hours chosen.
Chosen == { peak.top_3_peak_hours[i][1] : i \in 1..Len(peak.top_3_peak_hours) }

\* C18: the hours chosen are the three with the largest totals, fewer when
\* fewer hours have arrivals; of two hours with the same total the earlier
\* is chosen first.
C18_TopThreeEarlierFirst ==
    Peaked =>
        LET top == peak.top_3_peak_hours
            busy == { h \in 0..23 : DueTotal(h) > 0 }
        IN  /\ Len(top) = (IF Cardinality(busy) < 3 THEN Cardinality(busy) ELSE 3)
            /\ Cardinality(Chosen) = Len(top)
            /\ \A i \in 1..Len(top) : top[i][2] = DueTotal(top[i][1]) /\ top[i][2] > 0
            /\ \A i, j \in 1..Len(top) :
                  i < j => \/ top[i][2] > top[j][2]
                           \/ top[i][2] = top[j][2] /\ top[i][1] < top[j][1]
            /\ \A c \in Chosen, u \in (0..23) \ Chosen :
                  \/ DueTotal(u) < DueTotal(c)
                  \/ DueTotal(u) = DueTotal(c) /\ c < u

\* a tie at the cut: an hour left out has the total of the last one chosen
C18_Witness ==
    /\ Peaked
    /\ Len(peak.top_3_peak_hours) = 3
    /\ peak.top_3_peak_hours[1][2] > peak.top_3_peak_hours[2][2]
    /\ peak.top_3_peak_hours[3] = <<6, 1>>
    /\ peak.hourly_breakdown[7] = 1
    /\ peak.hourly_breakdown[10] = 1

\* C19: a day without arrivals in any hour is answered with an error; a
\* success has an hour with arrivals and a stop list that is not empty.
C19_NoDataIsError ==
    Peaked =>
        /\ (\A h \in 0..23 : DueTotal(h) = 0) => peak.ret.status = "error"
        /\ peak.ret.status = "success" =>
              /\ \E h \in 0..23 : DueTotal(h) > 0
              /\ peak.ret.stops # <<>>

\* rows in the hours of the day, of services that do not run
C19_Witness ==
    /\ Peaked
    /\ peak.city = "porto"
    /\ stop_times_df = PeakStopTimeRows
    /\ \A h \in 0..23 : peak.hourly_breakdown[h] = 0
    /\ peak.ret.status = "error"

\* The records of a stop in the answer, and the chosen hours in which rows
\* are due at the stop.
RecordsOf(stop_id) ==
    { i \in 1..Len(peak.ret.stops) : peak.ret.stops[i].stop_id = stop_id }

ChosenAt(stop_id) == { h \in Chosen : DueInHour(h, stop_id) > 0 }

RECURSIVE SumOver(_, _)
SumOver(hours, stop_id) ==
    IF hours = {} THEN 0
    ELSE LET h == CHOOSE x \in hours : TRUE
         IN  DueInHour(h, stop_id) + SumOver(hours \ {h}, stop_id)

\* C20: a success has one record for each stop with arrivals in a chosen
\* hour and none for any other stop; the record has one entry for each
\* chosen hour with arrivals at the stop, the sum of their counts as
\* total_bus_count and the largest of them as max_hourly_count.
C20_OneRecordPerStop ==
    PeakSuccess =>
        /\ \A i \in 1..Len(peak.ret.stops) : peak.ret.stops[i].stop_id \in AllStopIds
        /\ \A id \in AllStopIds :
              /\ Cardinality(RecordsOf(id)) = (IF ChosenAt(id) = {} THEN 0 ELSE 1)
              /\ \A i \in RecordsOf(id) :
                    LET rec == peak.ret.stops[i] IN
                    /\ Len(rec.peak_hours) = Cardinality(ChosenAt(id))
                    /\ { rec.peak_hours[k].hour : k \in 1..Len(rec.peak_hours) }
                          = ChosenAt(id)
                    /\ \A k \in 1..Len(rec.peak_hours) :
                          rec.peak_hours[k].bus_count
                              = DueInHour(rec.peak_hours[k].hour, id)
                    /\ rec.total_bus_count = SumOver(ChosenAt(id), id)
                    /\ \A h \in ChosenAt(id) : rec.max_hourly_count >= DueInHour(h, id)
                    /\ \E h \in ChosenAt(id) : rec.max_hourly_count = DueInHour(h, id)

C20_Witness ==
    /\ PeakSuccess
    /\ \E i \in 1..Len(peak.ret.stops) :
          /\ peak.ret.stops[i].stop_id = "A"
          /\ Len(peak.ret.stops[i].peak_hours) = 3
          /\ peak.ret.stops[i].total_bus_count = 4
          /\ peak.ret.stops[i].max_hourly_count = 2
    /\ \E i \in 1..Len(peak.ret.stops) :
          /\ peak.ret.stops[i].stop_id = "B"
          /\ Len(peak.ret.stops[i].peak_hours) = 2

\* C21: the stops of a peak-hours success are in the order of their
\* total_bus_count, largest first: of two adjacent stops the earlier has a
\* total at least that of the later.
C21_SortedByTotal ==
    PeakSuccess =>
        \A i \in 1..(Len(peak.ret.stops) - 1) :
            peak.ret.stops[i].total_bus_count >= peak.ret.stops[i + 1].total_bus_count

\* hour 9 is the first hour chosen and lists B before A; hour 8 then adds
\* to A, which the loops filled in second
C21_Witness ==
    /\ PeakSuccess
    /\ sort_ties = <<"B", "A", "C", "D">>
    /\ peak.top_3_peak_hours = << <<9, 2>>, <<8, 1>> >>
    /\ Len(peak.ret.stops) = 2
    /\ peak.ret.stops[1].stop_id = "A" /\ peak.ret.stops[1].total_bus_count = 2
    /\ peak.ret.stops[2].stop_id = "B" /\ peak.ret.stops[2].total_bus_count = 1

(***************************************************************************)
(* Properties of _load_stop_times_chunked                                  *)
(***************************************************************************)
Read == chunked.read

\* C23: the read in windows gives the rows, in the order, that the filter
\* of the memory-resident table gives, whatever the window size and the
\* number of rows.
C23_WindowedIsResident ==
    Read => chunked.windowed = chunked.resident

\* four rows in windows of three: the last window has one row, and it matches
C23_Witness ==
    /\ Read
    /\ Len(chunked.table) = 4
    /\ chunked.chunk_size = 3
    /\ chunked.stop_ids = {"A", "B"}
    /\ chunked.table[2].stop_id = "C"
    /\ chunked.table[4].stop_id = "B"
    /\ Len(chunked.windowed) = 3
    /\ chunked.windowed[3] = chunked.table[4]

(***************************************************************************)
(* Properties of the analyzer's loading                                    *)
(***************************************************************************)
Found == found.asked

\* C22: get_city_stops returns the stops read from stops.txt that are
\* parent stations within the bounds of the city, the bounds themselves
\* included, and no stops for a city it has no bounds for or when stops.txt
\* was not read.
C22_StopsInCity ==
    Found =>
        /\ found.ret = { st \in stops_df : InCityOf(Lower(found.city), st.stop_id) }
        /\ Lower(found.city) \notin {"porto", "london", "lisbon", "berlin"}
              => found.ret = {}
        /\ "stops.txt" \notin gtfs_folder.readable => found.ret = {}

\* B lies on the northern and eastern bounds of Porto; C is a platform
C22_Witness ==
    /\ Found
    /\ found.city = "Porto"
    /\ { st.stop_id : st \in found.ret } = {"A", "B"}
    /\ \E st \in found.ret :
          st.stop_lat = city_boundaries.porto.lat_max
              /\ st.stop_lon = city_boundaries.porto.lon_max

\* C24: when one file of the feed directory cannot be read, the table of
\* every other file is loaded (stop_times_df unless it does not fit in
\* memory, when it is read from the file on demand).
C24_FailureIsolated ==
    Cardinality({ i \in 1..Len(FeedFiles) : FeedFiles[i] \notin gtfs_folder.readable }) = 1
        => \A i \in 1..Len(FeedFiles) :
              FeedFiles[i] \in gtfs_folder.readable
                  => \/ Tables[i] \in loaded
                     \/ FeedFiles[i] = "stop_times.txt" /\ ~gtfs_folder.fits

\* The rows of stop_times.txt at a stop of the city asked for, on a trip
\* whose service runs on the date asked for: those without a time of day
\* that parses, and those of a stated hour.
Running(r) == \E sv \in ServiceOf(r) : RunsOn(sv, arrivals.target_date)

Unparseable(stop_id) ==
    { r \in stop_times_txt :
        /\ r.stop_id = stop_id /\ InCity(stop_id) /\ Running(r)
        /\ r.arrival_time \notin WellFormedTimes }

StatedAt(stop_id, h) ==
    { r \in stop_times_txt :
        /\ r.stop_id = stop_id /\ InCity(stop_id) /\ Running(r)
        /\ r.arrival_time \in WellFormedTimes
        /\ StatedHour(r.arrival_time) = h }

\* C27: a row whose arrival time does not parse is counted at its stop in
\* hour 0 of the date asked for, with the rows of the hour 00, and in no
\* other hour.
C27_UnparseableIsMidnight ==
    (Asked /\ "stop_times.txt" \in gtfs_folder.readable) =>
        \A id \in AllStopIds :
            Unparseable(id) # {} =>
                IF arrivals.hour = 0
                THEN /\ Success
                     /\ \E i \in Listed(id) :
                           arrivals.ret.stops[i].bus_count
                              = Cardinality(Unparseable(id)) + Cardinality(StatedAt(id, 0))
                ELSE Success =>
                        \A i \in Listed(id) :
                            arrivals.ret.stops[i].bus_count
                                = Cardinality(StatedAt(id, arrivals.hour))

\* an empty cell and the row of 00:30 at A, a word and a time of two fields
\* at B, read from the file in windows
C27_Witness ==
    /\ Success
    /\ arrivals.hour = 0
    /\ arrivals.target_date = 20240301
    /\ calendar_dates_df = {}
    /\ ~gtfs_folder.fits
    /\ Len(arrivals.ret.stops) = 2
    /\ \A i \in 1..2 : arrivals.ret.stops[i].bus_count = 2
    /\ Cardinality(Unparseable("B")) = 2
    /\ Cardinality(Unparseable("A")) = 1

(***************************************************************************)
(* Properties of the bus tools (SpecTools)                                 *)
(***************************************************************************)
ToolQueried == tool.op \in {"get_bus_peak_hours", "get_bus_stops_by_hour"}
StatusOf(ret) == IF ret[1] = "dict" THEN DictGet(ret, "status") ELSE PyNone
PorPeakKey == BusPeakKey("porto", FirstDay)
PorStopsKey == BusStopsKey("porto", FirstDay, 8)

\* C25 as stated: whatever the city, the date string, the hour and the
\* file the cache holds for the key (none, one of another day, one that is
\* not an entry, a directory that cannot be written), a call of
\* get_bus_peak_hours or get_bus_stops_by_hour raises nothing and returns a
\* result whose status is success or error.
C25_NeverFatal ==
    (ToolQueried /\ (tool.date[1] = "str" \/ tool.op = "get_bus_peak_hours"))
        => /\ tool.exc = "none"
           /\ StatusOf(tool.ret) \in {PyStr("success"), PyStr("error")}

\* What does hold of C25: a call that finds no file, an entry, or an entry
\* of another day for its key raises nothing and returns a status.
NeverFatalOnEntries ==
    (ToolQueried /\ (tool.date[1] = "str" \/ tool.op = "get_bus_peak_hours")
        /\ (tool.pre = NoFile \/ IsObject(tool.pre)))
        => /\ tool.exc = "none"
           /\ StatusOf(tool.ret) \in {PyStr("success"), PyStr("error")}

\* YYYY-MM-DD: four digits, two digits, two digits, hyphens between
InFormat(date) ==
    /\ date[1] = "str"
    /\ Len(date[2]) = 10
    /\ \A i \in 1..10 : IF i \in {5, 8} THEN date[2][i] = "-" ELSE date[2][i] \in DigitChars

UnknownCity(city) == Lower(city) \notin DOMAIN city_boundaries
Given(date) == date[1] = "str" /\ date[2] # <<>>

\* C26 as stated: a query with an unknown city, or with a date given that
\* is not in the form YYYY-MM-DD, returns a result of status error; with
\* such a date, or with an hour outside 0..23 in get_bus_stops_by_hour, it
\* returns without going to the cache or to the feed, and every file of the
\* cache is as it was.
C26_BadQueryIsError ==
    [][ /\ (tool'.op \in {"get_bus_peak_hours", "get_bus_stops_by_hour"}
              /\ Given(tool'.date)
              /\ (UnknownCity(tool'.city) \/ ~InFormat(tool'.date)))
           => (tool'.exc = "none" /\ StatusOf(tool'.ret) = PyStr("error"))
        /\ (\/ tool'.op \in {"get_bus_peak_hours", "get_bus_stops_by_hour"}
                 /\ Given(tool'.date) /\ ~InFormat(tool'.date)
            \/ tool'.op = "get_bus_stops_by_hour" /\ InFormat(tool'.date)
                 /\ tool'.hour \notin 0..23)
           => (~tool'.cached /\ ~tool'.fetched /\ store' = store) ]_vars

\* What does hold of C26: a date given that strptime rejects, or an hour
\* outside 0..23 with a date it accepts, has the error returned without
\* going to the cache or the feed, and every file is as it was.
RejectedIsImmediate ==
    [][ (\/ tool'.op \in {"get_bus_peak_hours", "get_bus_stops_by_hour"}
              /\ Given(tool'.date) /\ ~strptime(tool'.date).ok
         \/ tool'.op = "get_bus_stops_by_hour" /\ Given(tool'.date)
              /\ strptime(tool'.date).ok /\ tool'.hour \notin 0..23)
        => /\ tool'.exc = "none" /\ StatusOf(tool'.ret) = PyStr("error")
           /\ ~tool'.cached /\ ~tool'.fetched /\ store' = store ]_vars

\* C28 as stated: a call through get_cached_or_fetch whose key was last
\* fetched for today, the fetch having returned a result of status error,
\* with no clearing or replacement of the key's file since, returns that
\* result and does not fetch.
C28_ErrorMemoized ==
    (ToolQueried /\ tool.cached /\ Attempted(tool.memo)
        /\ StatusOf(Value(tool.memo)) = PyStr("error"))
        => (~tool.fetched /\ tool.exc = "none" /\ tool.ret = Value(tool.memo))

\* C28 amended: a call that fetches with a directory that can be written
\* leaves its result, of status error or not, as today's entry of the key;
\* and a call whose key was last fetched with status error and written
\* returns that result and does not fetch.
C28_ErrorMemoizedWhenWritten ==
    /\ (ToolQueried /\ tool.fetched /\ tool.io = "ok")
          => store[tool.key] = EntryFile(tool.ret, today)
    /\ (ToolQueried /\ tool.cached /\ Attempted(tool.memo) /\ Written(tool.memo)
          /\ StatusOf(Value(tool.memo)) = PyStr("error"))
          => (~tool.fetched /\ tool.exc = "none" /\ tool.ret = Value(tool.memo))

C28_Witness ==
    /\ tool.op = "get_bus_stops_by_hour"
    /\ tool.city = "paris"
    /\ tool.cached /\ ~tool.fetched
    /\ Attempted(tool.memo) /\ Written(tool.memo)
    /\ tool.pre = EntryFile(tool.ret, today)
    /\ StatusOf(tool.ret) = PyStr("error")

C30_NoTornValues ==
    \A p \in Procs :
        (call[p].op \in {"get", "get_cached_or_fetch"} /\ pc[p] = "idle"
            /\ res[p].ret # PyNone)
            => res[p].ret \in TornValues \cup {FreshOf(p)}

\* What does hold of C30: a file of which only a part has been written is
\* never returned as data; get returns None for it and removes it.
NoPartialValues ==
    \A p \in Procs :
        (call[p].op \in {"get", "get_cached_or_fetch"} /\ pc[p] = "idle"
            /\ res[p].ret # PyNone)
            => /\ res[p].exc = "none"
               /\ res[p].ret[1] = "list" /\ Len(res[p].ret[2]) = 2
====
